---------------------------- MODULE Spec2Model ----------------------------
(***************************************************************************)
(* Model of fastapi-reverse-proxy: the LoadBalancer (round robin and       *)
(* health based), the HealthChecker with its background probe loop, and    *)
(* the HTTP and WebSocket relays of proxy_pass.py.                         *)
(*                                                                         *)
(* asyncio runs one coroutine at a time; another coroutine can run only    *)
(* while the current one is suspended in an await.  Every action below is  *)
(* therefore the code between two awaits of one coroutine.                 *)
(***************************************************************************)
EXTENDS Integers, Sequences, FiniteSets, TLC

(***************************************************************************)
(* Bounds of the model.                                                    *)
(***************************************************************************)
MaxServers == 3      \* longest static server list
MaxPicks == 4        \* longest recorded run of consecutive static get() calls
MaxCycles == 2       \* probe cycles a behaviour completes
MaxQuota == 2        \* largest configured maxrequests
MaxTasks == 3        \* probe-loop tasks a behaviour creates
NumCallers == 2      \* concurrent callers of start()/stop()/destroy()
MaxChunks == 2       \* response body chunks an HTTP relay streams
MaxMsgs == 1         \* messages a WebSocket loop forwards
MaxTargets == 3      \* longest targets list given to HealthChecker(...)

Origins == {"A", "B", "C"}

\* Python's None as a returned target.
NoTarget == "None"

\* status[host] is a latency, or False when the host is down
\* (health_check.py:51).
Down == -1

\* maxrequests / max_requests is an int, or None for "no limit"
\* (load_balance.py:28-29).
NoLimit == -1

\* Latencies a successful probe can measure, in ms.
Latencies == {1, 2}

\* Values of maxrequests.
Quotas == {NoLimit} \cup 0..MaxQuota

\* Largest value a request counter is followed to: one pick past the
\* largest quota.
MaxCount == MaxQuota + 1

VARIABLES
    \* ---- LoadBalancer (load_balance.py) ----
    healthMode,     \* self.__healthMode
    servers,        \* self.servers when it is a list: a sequence of origins
    index,          \* self.__index
    request_counts, \* self._request_counts (a missing key reads as 0)
    last_health_update, \* self._last_health_update
    limits_map,     \* self._limits_map
    global_max_requests, \* self._global_max_requests
    quotaArg,       \* the value last assigned to lb.max_requests
    quotaRead,      \* the value the last read of lb.max_requests returned
    \* ---- HealthChecker (health_check.py) ----
    targets,        \* self.targets: the registry, a sequence of hosts
    status,         \* self.status
    is_personalized,\* self._is_personalized
    last_update,    \* LastUpdateTimestamp of the monitor
    task,           \* self._task: 0 for None, else the id of a task
    taskState,      \* per task id: "unborn", "check" (awaiting the probes of
                    \* a cycle), "sleep", "cancelling" (cancel() called, the
                    \* CancelledError not yet delivered), "done"
    pending,        \* per task id: hosts whose probe of the running cycle
                    \* has not resolved yet
    client,         \* self._client: "open" (an AsyncClient) or "None"
    owns_client,    \* self._owns_client
    callerPc,       \* per caller of start/stop/destroy: where it is suspended
    awaited,        \* per caller: the task its stop() awaits ("await self._task")
    waitq,          \* the callers suspended in "await self._task", in the
                    \* order they began to wait
    cont,           \* the caller that runs on after its stop() was woken
                    \* while others wait to be woken; 0 if none
    \* ---- proxy_pass (proxy_pass.py:21-139) ----
    hpc,            \* where the HTTP relay is
    inbound_headers,    \* dict(request.headers)
    override_headers,   \* an override_headers dict was passed
    additional_headers, \* an additional_headers dict was passed
    headers,        \* headers of the upstream request
    shared,         \* the application holds a shared client (proxy_httpx.py)
    method,         \* final_method
    override_body,  \* an override_body was passed
    content,        \* content of the upstream request: "none", "bytes", "stream"
    is_global_client, \* is_global_client
    fallback,       \* the client the relay created itself: "none", "open", "closed"
    resp,           \* rp_resp: "none", "open", "closed"
    hexc,           \* exception the relay propagates, "" if none
    hstatus,        \* status code of the response returned, 0 if none
    hcancelled,     \* the relay's task has been cancelled
    chunks,         \* body chunks streamed to the caller
    respCloses,     \* number of rp_resp.aclose() calls
    fallbackCloses, \* number of aclose() calls on the fallback client
    sharedCloses,   \* number of aclose() calls on the shared client
    \* ---- proxy_pass_websocket (proxy_pass.py:143-256) ----
    wpc,            \* where the WebSocket relay is
    wtarget,        \* LoadBalancer.get() returned a target
    inbound,        \* the inbound connection: "connecting", "accepted", "closed"
    outbound,       \* target_ws: "none", "open", "closing", "closed"
    loopState,      \* per direction: "unborn", "recv", "send", "cancelling", "done"
    msgs,           \* per direction: messages forwarded
    wexc,           \* exception the relay propagates, "" if none
    wcancelled,     \* the relay's task has been cancelled
    closeCode,      \* code of the first websocket.close() call, 0 before it
    closeCalls,     \* number of websocket.close() calls
    subprotocols,   \* the subprotocols argument of the relay, <<>> for None
    scope_subprotocols, \* websocket.scope["subprotocols"]
    negotiated,     \* target_ws.subprotocol; "-" before the handshake
    accept_subprotocol, \* the subprotocol websocket.accept was called
                    \* with; "-" while it has not been called
    connectCalls,   \* calls of websockets.connect
    \* ---- HealthChecker(...) (health_check.py:12-64) ----
    ctor_targets,   \* the targets argument: the kinds of its elements
    ctor_interval,  \* the interval argument
    ctor_timeout,   \* the timeout argument
    ctor_autostart, \* the autostart argument
    ctorErr,        \* "idle": no constructor call; "pending": called, not
                    \* run; "": returned; else the exception raised
    ctorIdx,        \* the index the exception's message names, -1 if none
    \* ---- the last step taken ----
    lastOp,         \* a call's name, or "bg" for a step of a background task
    ret,            \* what the call returned (an origin or "None") or the
                    \* exception it raised; "-" after a background step
    didReset,       \* the step was a get()/peek() that reset the counters
    lateDone,       \* the step completed a destroy() that began after an
                    \* earlier destroy() had completed
    peekedBefore,   \* after a get() that directly followed a peek(): what
                    \* that peek() returned; "-" otherwise
    \* ---- history ----
    startIndex,     \* cursor at the start of the current run of get() calls
    picks,          \* origins returned by the get() calls of the current run
    resets,         \* number of counter resets the selector has performed
    closes,         \* number of aclose() calls on the monitor's client
    destroyed,      \* a destroy() call has completed
    late,           \* per caller: its destroy() began after an earlier
                    \* destroy() had completed
    winBest         \* the host that was the lowest-latency up host at every
                    \* get() since the last reset ("none": no get() yet,
                    \* "mixed": not always the same host)

staticVars == <<servers, index, startIndex, picks>>
callVars == <<lastOp, ret, didReset, lateDone, peekedBefore>>
lbVars == <<healthMode, request_counts, last_health_update, limits_map,
            global_max_requests, quotaArg, quotaRead, resets, winBest>>
hcVars == <<targets, status, is_personalized, last_update>>
taskVars == <<task, taskState, pending>>
lifeVars == <<client, owns_client, callerPc, awaited, waitq, cont, closes, destroyed,
             late>>
httpIn == <<inbound_headers, override_headers, additional_headers>>
httpVars == <<httpIn, headers, hstatus, hpc, shared, method, override_body, content, is_global_client,
              fallback, resp, hexc, hcancelled, chunks, respCloses,
              fallbackCloses, sharedCloses>>
subVars == <<subprotocols, scope_subprotocols, negotiated, accept_subprotocol,
             connectCalls>>
wsVars == <<wpc, wtarget, inbound, outbound, loopState, msgs, wexc, wcancelled,
            closeCode, closeCalls, subVars>>
ctorVars == <<ctor_targets, ctor_interval, ctor_timeout, ctor_autostart,
              ctorErr, ctorIdx>>
relayVars == <<httpVars, wsVars, ctorVars>>
vars == <<healthMode, servers, index, request_counts, last_health_update,
          limits_map, global_max_requests, quotaArg, quotaRead, targets,
          status, is_personalized,
          last_update, task, taskState, pending, client, owns_client,
          callerPc, awaited, lastOp, ret, didReset, lateDone, peekedBefore,
          startIndex, picks, resets, closes, destroyed, late, winBest, waitq, cont,
          hpc, shared, method, override_body, content, is_global_client,
          fallback, resp, hexc, hcancelled, chunks, respCloses,
          fallbackCloses, sharedCloses, inbound_headers, override_headers,
          additional_headers, headers, hstatus,
          wpc, wtarget, inbound, outbound, loopState, msgs, wexc, wcancelled,
          closeCode, closeCalls, ctor_targets, ctor_interval, ctor_timeout,
          ctor_autostart, ctorErr, ctorIdx, subprotocols,
          scope_subprotocols, negotiated, accept_subprotocol, connectCalls>>

(***************************************************************************)
(* Sequences over S of length 0..n.                                        *)
(***************************************************************************)
SeqsUpTo(S, n) == UNION {[1..k -> S] : k \in 0..n}

TaskIds == 1..MaxTasks

Callers == 1..NumCallers

\* The two loops of a WebSocket relay: client_to_target, target_to_client.
Directions == {"c2t", "t2c"}

\* The registry of the monitor in health mode.
HealthTargets == <<"A", "B">>

Hosts == {targets[i] : i \in 1..Len(targets)}

\* Position of a host in self.targets, which is also its position in the
\* self.status dict (health_check.py:50-52).
Pos(h) == CHOOSE i \in 1..Len(targets) : targets[i] = h

(***************************************************************************)
(* HealthChecker queries (health_check.py:155-174).                        *)
(***************************************************************************)

\* a monitor that starts with every host down
InitialStatusDown == Down

\* health_check.py:52: {host: 0.0 for host in self.targets}
InitialStatus == 0

\* get_response_times(): the keys of the returned dict.
UpHosts == {h \in Hosts : status[h] # Down}

\* every target, whatever its status
HealthyTargetsAll == targets

\* get_healthy_targets()
HealthyTargets == SelectSeq(targets, LAMBDA h : status[h] # Down)

\* the last host of least latency
MinLatencyLast(S) ==
    IF S = {} THEN NoTarget
    ELSE CHOOSE h \in S : \A g \in S :
            status[h] < status[g] \/ (status[h] = status[g] /\ Pos(h) >= Pos(g))

\* min(d, key=d.get) over the hosts S of a dict in registry order: the first
\* host of least latency.
MinLatency(S) ==
    IF S = {} THEN NoTarget
    ELSE CHOOSE h \in S : \A g \in S :
            status[h] < status[g] \/ (status[h] = status[g] /\ Pos(h) <= Pos(g))

\* get_fastest()
Fastest == MinLatency(UpHosts)

\* is_healthy(target)
IsHealthy(h) == h \in Hosts /\ status[h] # Down

(***************************************************************************)
(* LastUpdateTimestamp.  health_check.py under src/ never assigns the      *)
(* last_update that load_balance.py:78 reads, so it is modelled from the   *)
(* specification: it advances when a probe cycle completes.  The stamps of *)
(* successive completions are strictly increasing (every cycle awaits its  *)
(* probes and the loop sleeps interval >= 1 s between cycles), so the      *)
(* stamp is modelled by the number of completed cycles.                    *)
(***************************************************************************)
InitialStamp == 0

NextStamp == last_update + 1

(***************************************************************************)
(* LoadBalancer._get_best_healthy (load_balance.py:75-97).                 *)
(***************************************************************************)

\* load_balance.py:78
NewCycleOrSame == last_update >= last_health_update

NewCycle == last_update > last_health_update

\* load_balance.py:79
CountsAfterReset ==
    IF NewCycle THEN [h \in Hosts |-> 0] ELSE request_counts

\* load_balance.py:89
Limit(h) == IF is_personalized THEN limits_map[h] ELSE global_max_requests

\* load_balance.py:91
UnderLimitOrAt(h) == Limit(h) = NoLimit \/ CountsAfterReset[h] <= Limit(h)

UnderLimit(h) == Limit(h) = NoLimit \/ CountsAfterReset[h] < Limit(h)

\* load_balance.py:86-92
Available == {h \in UpHosts : UnderLimit(h)}

\* load_balance.py:94-97
BestHealthy == MinLatency(Available)

\* a get() that counts a pick twice
CountsAfterGetTwice ==
    IF BestHealthy # NoTarget
    THEN [CountsAfterReset EXCEPT ![BestHealthy] = @ + 2]
    ELSE CountsAfterReset

\* load_balance.py:111-113: the counters get() leaves.
CountsAfterGet ==
    IF BestHealthy # NoTarget
    THEN [CountsAfterReset EXCEPT ![BestHealthy] = @ + 1]
    ELSE CountsAfterReset

\* load_balance.py:103-104: the counters peek() leaves.
CountsAfterPeekIncrements == CountsAfterGet

CountsAfterPeek == CountsAfterReset

(***************************************************************************)
(* History of the quota window.                                            *)
(***************************************************************************)
IsLowestUp(h) ==
    /\ h \in Hosts
    /\ status[h] # Down
    /\ \A g \in Hosts : status[g] # Down =>
          status[h] < status[g] \/ (status[h] = status[g] /\ Pos(h) <= Pos(g))

LowestUpNow ==
    IF \E h \in Hosts : IsLowestUp(h)
    THEN CHOOSE h \in Hosts : IsLowestUp(h)
    ELSE "mixed"

WinBestAfterGet ==
    LET base == IF NewCycle THEN "none" ELSE winBest
    IN  IF base = "none" THEN LowestUpNow
        ELSE IF base = LowestUpNow THEN base ELSE "mixed"

(***************************************************************************)
(* LoadBalancer operations.                                                *)
(***************************************************************************)

\* load_balance.py:116-118: the origin under the cursor.
StaticTarget == IF servers = <<>> THEN NoTarget ELSE servers[index + 1]

\* a cursor that skips an entry
AdvanceIndexSkips == (index + 2) % Len(servers)

\* a cursor that get() leaves where it is
AdvanceIndexStays == index

\* load_balance.py:120
AdvanceIndex == (index + 1) % Len(servers)

\* a get() that returns the entry after the cursor
GetResultAfterCursor ==
    IF healthMode THEN BestHealthy
    ELSE IF servers = <<>> THEN NoTarget
    ELSE servers[AdvanceIndex + 1]

\* What get() returns (load_balance.py:111-118).
GetResult == IF healthMode THEN BestHealthy ELSE StaticTarget

\* What get() does to the selector (load_balance.py:109-120).
GetEffects ==
    /\ lateDone' = FALSE
    /\ peekedBefore' = IF lastOp = "peek" THEN ret ELSE "-"
    /\ IF healthMode
       THEN /\ BestHealthy # NoTarget => CountsAfterReset[BestHealthy] < MaxCount
            /\ request_counts' = CountsAfterGet
            /\ last_health_update' =
                  IF NewCycle THEN last_update ELSE last_health_update
            /\ resets' = IF NewCycle THEN resets + 1 ELSE resets
            /\ didReset' = NewCycle
            /\ winBest' = WinBestAfterGet
            /\ UNCHANGED staticVars
       ELSE /\ Len(picks) < MaxPicks
            /\ index' = IF servers = <<>> THEN index ELSE AdvanceIndex
            /\ picks' = Append(picks, StaticTarget)
            /\ didReset' = FALSE
            /\ UNCHANGED <<servers, startIndex, request_counts,
                           last_health_update, resets, winBest>>
    /\ UNCHANGED <<healthMode, limits_map, global_max_requests, quotaArg,
                   quotaRead>>
    /\ UNCHANGED <<hcVars, taskVars, lifeVars>>

\* LoadBalancer.get() (load_balance.py:109-120)
Get ==
    /\ lastOp' = "get"
    /\ ret' = GetResult
    /\ GetEffects
    /\ UNCHANGED relayVars

\* the response for a target that is relayed whatever it is
LbResponseRelays(target) == target

\* load_balance.py:137-144: the 503 response, or the relay to the target.
LbResponse(target) == IF target = NoTarget THEN "503" ELSE target

\* LoadBalancer.proxy_pass (load_balance.py:133-144) up to its await:
\* get(), then either the 503 response is returned or proxy_pass is
\* entered for the target (its steps are the Http actions below).
LbProxyPass ==
    /\ lastOp' = "proxy_pass"
    /\ ret' = LbResponse(GetResult)
    /\ GetEffects
    /\ IF LbResponse(GetResult) = "503"
       THEN /\ hpc' = "done"
            /\ hstatus' = 503
       ELSE /\ hpc' = "start"
            /\ hstatus' = 0
    /\ UNCHANGED <<httpIn, headers, shared, method, override_body, content,
                   is_global_client, fallback, resp, hexc, hcancelled, chunks,
                   respCloses, fallbackCloses, sharedCloses>>
    /\ UNCHANGED <<wsVars, ctorVars>>

\* LoadBalancer.peek() (load_balance.py:102-107)
Peek ==
    /\ lastOp' = "peek"
    /\ lateDone' = FALSE
    /\ peekedBefore' = "-"
    /\ IF healthMode
       THEN /\ ret' = BestHealthy
            /\ request_counts' = CountsAfterPeek
            /\ last_health_update' =
                  IF NewCycle THEN last_update ELSE last_health_update
            /\ resets' = IF NewCycle THEN resets + 1 ELSE resets
            /\ didReset' = NewCycle
            /\ winBest' = IF NewCycle THEN "none" ELSE winBest
       ELSE /\ ret' = StaticTarget
            /\ didReset' = FALSE
            /\ UNCHANGED <<request_counts, last_health_update, resets,
                           winBest>>
    /\ UNCHANGED <<healthMode, limits_map, global_max_requests, quotaArg,
                   quotaRead>>
    /\ UNCHANGED <<staticVars, hcVars, taskVars, lifeVars>>
    /\ UNCHANGED relayVars

\* LoadBalancer.set_index(i) (load_balance.py:126-131)
SetIndex(i) ==
    /\ lastOp' = "set_index"
    /\ didReset' = FALSE
    /\ lateDone' = FALSE
    /\ peekedBefore' = "-"
    /\ IF healthMode
       THEN /\ ret' = "RuntimeError"
            /\ UNCHANGED staticVars
       ELSE IF i < 0 \/ (servers # <<>> /\ i >= Len(servers))
       THEN /\ ret' = "IndexError"
            /\ UNCHANGED staticVars
       ELSE /\ ret' = NoTarget
            /\ index' = i
            /\ startIndex' = i
            /\ picks' = <<>>
            /\ UNCHANGED servers
    /\ UNCHANGED <<lbVars, hcVars, taskVars, lifeVars>>
    /\ UNCHANGED relayVars

(***************************************************************************)
(* HealthChecker: the probe loop (health_check.py:98-120, 150-153).        *)
(***************************************************************************)

\* A task that ends wakes the coroutines awaiting it one after the other,
\* in the order they began to wait, before the event loop runs any other
\* task (its done callbacks are scheduled together); a woken coroutine runs
\* on, through calls that do not suspend, before the next one is woken.
Draining == waitq # <<>> /\ taskState[awaited[Head(waitq)]] = "done"

\* After the head of waitq is woken the next waiter is due at once.
DrainGoesOn ==
    Len(waitq) > 1 /\ taskState[awaited[waitq[2]]] = "done"

\* Caller c can take a step: no wake-up is due, or c is the caller just
\* woken, which runs on until it suspends.
Turn(c) == ~Draining \/ cont = c

\* A step of a background task is no call.
Background ==
    /\ lastOp' = "bg"
    /\ ret' = "-"
    /\ didReset' = FALSE
    /\ lateDone' = FALSE
    /\ peekedBefore' = "-"

\* How "await self._client.head(url)" can end: a response with status < 400
\* or with status >= 400, or an exception; and the time it took, in ms.
ProbeEnds ==
    {"status<400", "status>=400", "timeout", "connect_error", "exception"}

ProbeOutcomes == ProbeEnds \X Latencies

\* health_check.py:107-114: what _check_target stores for an outcome.
Resolved(o) == IF o[1] = "status<400" THEN o[2] ELSE Down

\* What one probe can store: a latency or down.
ProbeResults == {Resolved(o) : o \in ProbeOutcomes}

\* a probe whose result is stored for every host
RecordedForAll(h, r) == [x \in DOMAIN status |-> r]

\* health_check.py:109-113: self.status[host] = ...
Recorded(h, r) == [status EXCEPT ![h] = r]

\* _check_target(host) resumes from "await self._client.head(url)" and
\* stores its result (health_check.py:106-114).  With self._client None the
\* call raises AttributeError, which the except clause turns into down.
ProbeResolve(t, h, r) ==
    /\ taskState[t] = "check"
    /\ ~Draining
    /\ h \in pending[t]
    /\ client = "None" => r = Down
    /\ status' = Recorded(h, r)
    /\ pending' = [pending EXCEPT ![t] = @ \ {h}]
    /\ Background
    /\ UNCHANGED <<targets, is_personalized, last_update, task, taskState>>
    /\ UNCHANGED <<staticVars, lbVars, lifeVars>>
    /\ UNCHANGED relayVars

\* asyncio.gather returns once every probe has resolved; check_all returns
\* and _loop goes to sleep (health_check.py:119-120, 152-153).
CycleComplete(t) ==
    /\ taskState[t] = "check"
    /\ ~Draining
    /\ pending[t] = {}
    /\ taskState' = [taskState EXCEPT ![t] = "sleep"]
    /\ last_update' = NextStamp
    /\ Background
    /\ UNCHANGED <<targets, status, is_personalized, task, pending>>
    /\ UNCHANGED <<staticVars, lbVars, lifeVars>>
    /\ UNCHANGED relayVars

\* a cycle that probes only the hosts that are up
CycleTargetsUp == {h \in Hosts : status[h] # Down}

\* health_check.py:152: the hosts a cycle probes
CycleTargets == Hosts

\* asyncio.sleep(interval) returns; check_all starts one probe per target
\* (health_check.py:118-119, 152).
WakeUp(t) ==
    /\ taskState[t] = "sleep"
    /\ ~Draining
    /\ last_update < MaxCycles
    /\ taskState' = [taskState EXCEPT ![t] = "check"]
    /\ pending' = [pending EXCEPT ![t] = CycleTargets]
    /\ Background
    /\ UNCHANGED <<hcVars, task>>
    /\ UNCHANGED <<staticVars, lbVars, lifeVars>>
    /\ UNCHANGED relayVars

\* A caller reads the monitor: get_healthy_targets(), get_response_times(),
\* is_healthy(), and get_fastest(), whose result it keeps
\* (health_check.py:155-174).
Query ==
    /\ healthMode
    /\ lastOp' = "query"
    /\ ret' = Fastest
    /\ didReset' = FALSE
    /\ lateDone' = FALSE
    /\ peekedBefore' = "-"
    /\ UNCHANGED <<staticVars, lbVars, hcVars, taskVars, lifeVars>>
    /\ UNCHANGED relayVars

(***************************************************************************)
(* The selector in either mode, with the monitor's probe loop running.     *)
(***************************************************************************)
InitCalls ==
    /\ lastOp = "init"
    /\ ret = "-"
    /\ didReset = FALSE
    /\ lateDone = FALSE
    /\ peekedBefore = "-"
    /\ quotaArg = NoLimit
    /\ quotaRead = NoLimit

\* No caller of start()/stop()/destroy() is under way.
InitCallers ==
    /\ callerPc = [c \in Callers |-> "idle"]
    /\ awaited = [c \in Callers |-> 0]
    /\ waitq = <<>>
    /\ cont = 0
    /\ late = [c \in Callers |-> FALSE]
    /\ closes = 0
    /\ destroyed = FALSE

(***************************************************************************)
(* Request headers of proxy_pass (proxy_pass.py:47-69).  A dict of headers *)
(* is a function from names to values; a value is the sequence of the      *)
(* comma separated items of the header.  The keys of request.headers are   *)
(* lower case, as the ASGI interface delivers them.                        *)
(***************************************************************************)
NoHeaders == [n \in {} |-> <<>>]

\* request.client.host (proxy_pass.py:53)
ClientHost == "caller"

InboundNames ==
    {"host", "connection", "transfer-encoding", "x-forwarded-for", "accept"}

InboundValue(n) ==
    IF n = "x-forwarded-for" THEN <<"hop1">>
    ELSE IF n = "host" THEN <<"proxy.example">>
    ELSE <<"v">>

InboundHeaderDicts ==
    {[n \in S |-> InboundValue(n)] : S \in SUBSET InboundNames}

\* the dicts a caller passes as override_headers and additional_headers
OverrideDict == [n \in {"host", "authorization"} |-> <<"v">>]

AdditionalDict == [n \in {"x-extra"} |-> <<"v">>]

\* EXCLUDED_HEADERS (proxy_pass.py:16-19)
EXCLUDED_HEADERS ==
    {"connection", "keep-alive", "proxy-authenticate", "proxy-authorization",
     "te", "trailers", "transfer-encoding", "upgrade"}

\* str.lower() on the header names of the model
Lower(n) ==
    CASE n = "X-Real-IP" -> "x-real-ip"
      [] n = "X-Forwarded-For" -> "x-forwarded-for"
      [] n = "X-Forwarded-Proto" -> "x-forwarded-proto"
      [] n = "X-Forwarded-Host" -> "x-forwarded-host"
      [] OTHER -> n

\* d[k] = v
Put(d, k, v) == [n \in DOMAIN d \cup {k} |-> IF n = k THEN v ELSE d[n]]

\* d.pop(k, None)
Pop(d, k) == [n \in DOMAIN d \ {k} |-> d[n]]

\* d.update(e)
Update(d, e) ==
    [n \in DOMAIN d \cup DOMAIN e |-> IF n \in DOMAIN e THEN e[n] ELSE d[n]]

\* proxy_pass.py:51-61
ForwardedHeaders(d) ==
    LET d1 == Put(d, "X-Real-IP", <<ClientHost>>)
        d2 == Put(d1, "X-Forwarded-For",
                  IF "X-Forwarded-For" \in DOMAIN d1
                  THEN Append(d1["X-Forwarded-For"], ClientHost)
                  ELSE <<ClientHost>>)
        d3 == Put(d2, "X-Forwarded-Proto", <<"http">>)
    IN  Put(d3, "X-Forwarded-Host",
            IF "host" \in DOMAIN d3 THEN d3["host"] ELSE <<"proxy.example">>)

\* proxy_pass.py:48-61
ResolvedHeaders ==
    IF override_headers THEN OverrideDict
    ELSE ForwardedHeaders(inbound_headers)

\* proxy_pass.py:48-69: the headers of the upstream request.
OutboundHeaders ==
    LET h == IF additional_headers
             THEN Update(ResolvedHeaders, AdditionalDict)
             ELSE ResolvedHeaders
    IN  Pop(Pop(h, "host"), "connection")

\* A relay without subprotocols that has called nothing.
InitNoSub ==
    /\ subprotocols = <<>>
    /\ scope_subprotocols = <<>>
    /\ negotiated = "-"
    /\ accept_subprotocol = "-"
    /\ connectCalls = 0

\* No constructor call of a monitor is followed.
InitNoCtor ==
    /\ ctor_targets = <<>>
    /\ ctor_interval = 1
    /\ ctor_timeout = 1
    /\ ctor_autostart = FALSE
    /\ ctorErr = "idle"
    /\ ctorIdx = -1

\* No HTTP relay and no WebSocket relay is under way.
InitNoRelay ==
    /\ hpc = "idle"
    /\ inbound_headers = NoHeaders
    /\ override_headers = FALSE
    /\ additional_headers = FALSE
    /\ headers = NoHeaders
    /\ hstatus = 0
    /\ shared = TRUE
    /\ method = "GET"
    /\ override_body = FALSE
    /\ content = "none"
    /\ is_global_client = FALSE
    /\ fallback = "none"
    /\ resp = "none"
    /\ hexc = ""
    /\ hcancelled = FALSE
    /\ chunks = 0
    /\ respCloses = 0
    /\ fallbackCloses = 0
    /\ sharedCloses = 0
    /\ wpc = "idle"
    /\ wtarget = FALSE
    /\ inbound = "connecting"
    /\ outbound = "none"
    /\ loopState = [d \in Directions |-> "unborn"]
    /\ msgs = [d \in Directions |-> 0]
    /\ wexc = ""
    /\ wcancelled = FALSE
    /\ closeCode = 0
    /\ closeCalls = 0
    /\ InitNoSub
    /\ InitNoCtor

\* A LoadBalancer over a list; no HealthChecker exists.
InitStaticRest ==
    /\ healthMode = FALSE
    /\ index = 0
    /\ startIndex = 0
    /\ picks = <<>>
    /\ request_counts = <<>>
    /\ last_health_update = 0
    /\ limits_map = <<>>
    /\ global_max_requests = NoLimit
    /\ resets = 0
    /\ winBest = "none"
    /\ targets = <<>>
    /\ status = <<>>
    /\ is_personalized = FALSE
    /\ last_update = InitialStamp
    /\ task = 0
    /\ taskState = [t \in TaskIds |-> "unborn"]
    /\ pending = [t \in TaskIds |-> {}]
    /\ client = "None"
    /\ owns_client = FALSE
    /\ InitCallers
    /\ InitCalls

\* LoadBalancer(list) (load_balance.py:18-31)
InitStatic ==
    /\ servers \in SeqsUpTo(Origins, MaxServers)
    /\ InitStaticRest

\* HealthChecker(targets) with autostart (health_check.py:50-58), then
\* LoadBalancer(checker) (load_balance.py:18-38); in the uniform
\* configuration max_requests may have been set (load_balance.py:65-73).
InitHealth ==
    /\ healthMode = TRUE
    /\ servers = <<>>
    /\ index = 0
    /\ startIndex = 0
    /\ picks = <<>>
    /\ targets = HealthTargets
    /\ status = [h \in Hosts |-> InitialStatus]
    /\ request_counts = [h \in Hosts |-> 0]
    /\ last_health_update = 0
    /\ is_personalized \in BOOLEAN
    /\ IF is_personalized
       THEN /\ limits_map \in [Hosts -> Quotas]
            /\ global_max_requests = NoLimit
       ELSE /\ global_max_requests \in Quotas
            /\ limits_map = [h \in Hosts |-> global_max_requests]
    /\ resets = 0
    /\ winBest = "none"
    /\ last_update = InitialStamp
    /\ task = 1
    /\ taskState = [t \in TaskIds |-> IF t = 1 THEN "check" ELSE "unborn"]
    /\ pending = [t \in TaskIds |-> IF t = 1 THEN Hosts ELSE {}]
    /\ client = "open"
    /\ owns_client = TRUE
    /\ InitCallers

Init == (InitStatic \/ (InitHealth /\ InitCalls)) /\ InitNoRelay

\* a property that never raises
QuotaRejectedNever == FALSE

\* load_balance.py:61, 67: the property raises RuntimeError.
QuotaRejected == healthMode /\ is_personalized

\* load_balance.py:71-73: the limits map the setter leaves.
LimitsAfterSet(value) ==
    IF healthMode THEN [h \in DOMAIN limits_map |-> value] ELSE limits_map

\* lb.max_requests = value (load_balance.py:65-73)
MaxRequestsSet(value) ==
    /\ lastOp' = "max_requests="
    /\ quotaArg' = value
    /\ didReset' = FALSE
    /\ lateDone' = FALSE
    /\ peekedBefore' = "-"
    /\ IF QuotaRejected
       THEN /\ ret' = "RuntimeError"
            /\ UNCHANGED <<global_max_requests, limits_map>>
       ELSE /\ ret' = "-"
            /\ global_max_requests' = value
            /\ limits_map' = LimitsAfterSet(value)
    /\ UNCHANGED <<healthMode, request_counts, last_health_update, quotaRead,
                   resets, winBest>>
    /\ UNCHANGED <<staticVars, hcVars, taskVars, lifeVars>>
    /\ UNCHANGED relayVars

\* lb.max_requests is read (load_balance.py:59-63)
MaxRequestsGet ==
    /\ lastOp' = "max_requests"
    /\ didReset' = FALSE
    /\ lateDone' = FALSE
    /\ peekedBefore' = "-"
    /\ IF QuotaRejected
       THEN /\ ret' = "RuntimeError"
            /\ UNCHANGED quotaRead
       ELSE /\ ret' = "-"
            /\ quotaRead' = global_max_requests
    /\ UNCHANGED <<healthMode, request_counts, last_health_update, limits_map,
                   global_max_requests, quotaArg, resets, winBest>>
    /\ UNCHANGED <<staticVars, hcVars, taskVars, lifeVars>>
    /\ UNCHANGED relayVars

\* The selector with its quota property and picks, within one quota window.
NextQuota ==
    \/ \E value \in Quotas : MaxRequestsSet(value)
    \/ MaxRequestsGet
    \/ Get

SpecQuota == Init /\ [][NextQuota]_vars

Next ==
    \/ Get
    \/ Peek
    \/ \E i \in -1..MaxServers : SetIndex(i)
    \/ Query
    \/ \E t \in TaskIds, h \in Hosts, r \in ProbeResults : ProbeResolve(t, h, r)
    \/ \E t \in TaskIds : CycleComplete(t)
    \/ \E t \in TaskIds : WakeUp(t)

Spec == Init /\ [][Next]_vars

\* The selector and the monitor as above, with requests that go through
\* LoadBalancer.proxy_pass.
NextLb ==
    \/ LbProxyPass
    \/ Get
    \/ \E t \in TaskIds, h \in Hosts, r \in ProbeResults : ProbeResolve(t, h, r)
    \/ \E t \in TaskIds : CycleComplete(t)
    \/ \E t \in TaskIds : WakeUp(t)

SpecLb == Init /\ [][NextLb]_vars

\* The monitor stays running: its probe loop and the queries of callers.
\* The event loop resumes every coroutine that can run: a probe ends within
\* the client's timeout, gather returns when its probes have, and sleep
\* returns after the interval.
NextLive ==
    \/ Query
    \/ \E t \in TaskIds, h \in Hosts, r \in ProbeResults : ProbeResolve(t, h, r)
    \/ \E t \in TaskIds : CycleComplete(t)
    \/ \E t \in TaskIds : WakeUp(t)

Running ==
    \/ \E t \in TaskIds, h \in Hosts, r \in ProbeResults : ProbeResolve(t, h, r)
    \/ \E t \in TaskIds : CycleComplete(t)
    \/ \E t \in TaskIds : WakeUp(t)

\* a health-mode balancer right after construction
InitLive == InitHealth /\ InitCalls /\ InitNoRelay

SpecLive == InitLive /\ [][NextLive]_vars /\ WF_vars(Running)

(***************************************************************************)
(* HealthChecker lifecycle: start(), stop(), destroy()                     *)
(* (health_check.py:122-148).  A caller is suspended in stop() at          *)
(* "await self._task" and in destroy() at "await self._client.aclose()".   *)
(* The probes of a live task are not followed here: a task in "check" has  *)
(* its probes outstanding until it is cancelled.                           *)
(***************************************************************************)
FreeTasks == {t \in TaskIds : taskState[t] = "unborn"}

NewTask == CHOOSE t \in FreeTasks : \A u \in FreeTasks : t <= u

\* a stop() that cancels nothing
CancelledNot(t) == taskState

\* self._task.cancel() (health_check.py:137): a task that has not finished
\* gets a CancelledError at the await it is suspended in; its probes are
\* cancelled with it and write nothing more.
Cancelled(t) ==
    [taskState EXCEPT ![t] = IF @ \in {"check", "sleep"} THEN "cancelling" ELSE @]

\* health_check.py:146
ShouldCloseOwnedOnly == owns_client

ShouldClose == owns_client /\ client # "None"

\* A call that does not complete in this step.
Suspended ==
    /\ lastOp' = "bg"
    /\ ret' = "-"
    /\ didReset' = FALSE
    /\ lateDone' = FALSE
    /\ peekedBefore' = "-"

\* start() (health_check.py:122-125)
Start(c) ==
    /\ callerPc[c] = "idle"
    /\ Turn(c)
    /\ task = 0 => FreeTasks # {}
    /\ IF task = 0
       THEN /\ task' = NewTask
            /\ taskState' = [taskState EXCEPT ![NewTask] = "check"]
            /\ pending' = [pending EXCEPT ![NewTask] = Hosts]
       ELSE UNCHANGED taskVars
    /\ lastOp' = "start"
    /\ ret' = "None"
    /\ didReset' = FALSE
    /\ lateDone' = FALSE
    /\ peekedBefore' = "-"
    /\ UNCHANGED <<staticVars, lbVars, hcVars, lifeVars>>
    /\ UNCHANGED relayVars

\* stop() up to "await self._task" (health_check.py:134-139)
StopBegin(c) ==
    /\ callerPc[c] = "idle"
    /\ Turn(c)
    /\ cont' = IF task # 0 THEN 0 ELSE cont
    /\ IF task # 0
       THEN /\ taskState' = Cancelled(task)
            /\ pending' = [pending EXCEPT ![task] = {}]
            /\ callerPc' = [callerPc EXCEPT ![c] = "stop_wait"]
            /\ awaited' = [awaited EXCEPT ![c] = task]
            /\ waitq' = Append(waitq, c)
            /\ Suspended
       ELSE /\ lastOp' = "stop"
            /\ ret' = "None"
            /\ didReset' = FALSE
            /\ lateDone' = FALSE
            /\ peekedBefore' = "-"
            /\ UNCHANGED <<taskState, pending, callerPc, awaited, waitq>>
    /\ UNCHANGED <<task, client, owns_client, closes, destroyed, late>>
    /\ UNCHANGED <<staticVars, lbVars, hcVars>>
    /\ UNCHANGED relayVars

\* The cancelled _loop task ends (CancelledError leaves _loop).
TaskEnd(t) ==
    /\ taskState[t] = "cancelling"
    /\ ~Draining
    /\ taskState' = [taskState EXCEPT ![t] = "done"]
    /\ Background
    /\ UNCHANGED <<task, pending>>
    /\ UNCHANGED <<staticVars, lbVars, hcVars, lifeVars>>
    /\ UNCHANGED relayVars

\* stop() from "await self._task" on (health_check.py:139-141)
StopEnd(c) ==
    /\ callerPc[c] = "stop_wait"
    /\ taskState[awaited[c]] = "done"
    /\ c = Head(waitq)
    /\ waitq' = Tail(waitq)
    /\ cont' = IF DrainGoesOn THEN c ELSE 0
    /\ task' = 0
    /\ callerPc' = [callerPc EXCEPT ![c] = "idle"]
    /\ awaited' = [awaited EXCEPT ![c] = 0]
    /\ lastOp' = "stop"
    /\ ret' = "None"
    /\ didReset' = FALSE
    /\ lateDone' = FALSE
    /\ peekedBefore' = "-"
    /\ UNCHANGED <<taskState, pending, client, owns_client, closes, destroyed, late>>
    /\ UNCHANGED <<staticVars, lbVars, hcVars>>
    /\ UNCHANGED relayVars

\* destroy() after "await self.stop()" has returned, for a call that is
\* late or not (health_check.py:146-148): either it calls aclose() and is
\* suspended in it, or it is complete.
DestroyAfterStop(c, isLate) ==
    IF ShouldClose
    THEN /\ closes' = closes + 1
         /\ callerPc' = [callerPc EXCEPT ![c] = "destroy_close"]
         /\ late' = [late EXCEPT ![c] = isLate]
         /\ Suspended
         /\ UNCHANGED destroyed
    ELSE /\ callerPc' = [callerPc EXCEPT ![c] = "idle"]
         /\ late' = [late EXCEPT ![c] = FALSE]
         /\ destroyed' = TRUE
         /\ lastOp' = "destroy"
         /\ ret' = "None"
         /\ didReset' = FALSE
         /\ lateDone' = isLate
         /\ peekedBefore' = "-"
         /\ UNCHANGED closes

\* destroy() up to its first suspension (health_check.py:143-147)
DestroyBegin(c) ==
    /\ callerPc[c] = "idle"
    /\ Turn(c)
    /\ cont' = IF task # 0 \/ ShouldClose THEN 0 ELSE cont
    /\ IF task # 0
       THEN /\ taskState' = Cancelled(task)
            /\ pending' = [pending EXCEPT ![task] = {}]
            /\ callerPc' = [callerPc EXCEPT ![c] = "destroy_wait"]
            /\ awaited' = [awaited EXCEPT ![c] = task]
            /\ waitq' = Append(waitq, c)
            /\ late' = [late EXCEPT ![c] = destroyed]
            /\ Suspended
            /\ UNCHANGED <<closes, destroyed>>
       ELSE /\ DestroyAfterStop(c, destroyed)
            /\ UNCHANGED <<taskState, pending, awaited, waitq>>
    /\ UNCHANGED <<task, client, owns_client>>
    /\ UNCHANGED <<staticVars, lbVars, hcVars>>
    /\ UNCHANGED relayVars

\* destroy() from "await self._task" inside stop() on
\* (health_check.py:139-147)
DestroyStopEnd(c) ==
    /\ callerPc[c] = "destroy_wait"
    /\ taskState[awaited[c]] = "done"
    /\ c = Head(waitq)
    /\ waitq' = Tail(waitq)
    /\ cont' = IF DrainGoesOn /\ ~ShouldClose THEN c ELSE 0
    /\ task' = 0
    /\ awaited' = [awaited EXCEPT ![c] = 0]
    /\ DestroyAfterStop(c, late[c])
    /\ UNCHANGED <<taskState, pending, client, owns_client>>
    /\ UNCHANGED <<staticVars, lbVars, hcVars>>
    /\ UNCHANGED relayVars

\* destroy() from "await self._client.aclose()" on (health_check.py:147-148)
DestroyCloseEnd(c) ==
    /\ callerPc[c] = "destroy_close"
    /\ ~Draining
    /\ client' = "None"
    /\ callerPc' = [callerPc EXCEPT ![c] = "idle"]
    /\ late' = [late EXCEPT ![c] = FALSE]
    /\ destroyed' = TRUE
    /\ lastOp' = "destroy"
    /\ ret' = "None"
    /\ didReset' = FALSE
    /\ lateDone' = late[c]
    /\ peekedBefore' = "-"
    /\ UNCHANGED <<owns_client, awaited, waitq, cont, closes>>
    /\ UNCHANGED <<staticVars, lbVars, hcVars, taskVars>>
    /\ UNCHANGED relayVars

\* LoadBalancer.destroy() and LoadBalancer.__aexit__
\* (load_balance.py:56-57, 99-100).  destroy() is a plain function: it
\* calls the monitor's coroutine function destroy() and drops the coroutine
\* object without awaiting it, so no line of HealthChecker.destroy runs,
\* and returns None.  __aexit__ (scoped = TRUE) awaits that None, which
\* raises TypeError.
LbDestroy(scoped) ==
    /\ healthMode
    /\ ~Draining
    /\ lastOp' = "lb_destroy"
    /\ ret' = IF scoped THEN "TypeError" ELSE "None"
    /\ didReset' = FALSE
    /\ lateDone' = FALSE
    /\ peekedBefore' = "-"
    /\ UNCHANGED <<staticVars, lbVars, hcVars, taskVars, lifeVars>>
    /\ UNCHANGED relayVars

\* HealthChecker(targets, autostart, httpx_client) (health_check.py:50-64):
\* with autostart in a running event loop the task exists from the start;
\* the client is the caller's or one the monitor creates and owns.
InitLife ==
    /\ healthMode = TRUE
    /\ servers = <<>>
    /\ index = 0
    /\ startIndex = 0
    /\ picks = <<>>
    /\ targets = HealthTargets
    /\ status = [h \in Hosts |-> InitialStatus]
    /\ request_counts = [h \in Hosts |-> 0]
    /\ last_health_update = 0
    /\ is_personalized = FALSE
    /\ global_max_requests = NoLimit
    /\ limits_map = [h \in Hosts |-> NoLimit]
    /\ resets = 0
    /\ winBest = "none"
    /\ last_update = InitialStamp
    /\ task \in {0, 1}
    /\ taskState = [t \in TaskIds |-> IF t = task THEN "check" ELSE "unborn"]
    /\ pending = [t \in TaskIds |-> IF t = task THEN Hosts ELSE {}]
    /\ client = "open"
    /\ owns_client \in BOOLEAN
    /\ InitCallers
    /\ InitCalls
    /\ InitNoRelay

NextLife ==
    \/ \E scoped \in BOOLEAN : LbDestroy(scoped)
    \/ \E c \in Callers : Start(c)
    \/ \E c \in Callers : StopBegin(c)
    \/ \E c \in Callers : StopEnd(c)
    \/ \E c \in Callers : DestroyBegin(c)
    \/ \E c \in Callers : DestroyStopEnd(c)
    \/ \E c \in Callers : DestroyCloseEnd(c)
    \/ \E t \in TaskIds : TaskEnd(t)

SpecLife == InitLife /\ [][NextLife]_vars

(***************************************************************************)
(* C1: in static mode, starting with the cursor at 0 on a non-empty list   *)
(* of length N, the k-th consecutive get() returns the k-th list entry     *)
(* (so N calls return every entry once, in list order) and the (N+1)-th    *)
(* returns the first entry again.                                          *)
(***************************************************************************)
C1_RoundRobin ==
    (~healthMode /\ servers # <<>> /\ startIndex = 0) =>
        \A k \in 1..Len(picks) : picks[k] = servers[((k - 1) % Len(servers)) + 1]

C1_Witness ==
    /\ ~healthMode
    /\ Len(servers) = 3
    /\ startIndex = 0
    /\ Len(picks) = 4
    /\ picks[4] = servers[1]
    /\ servers[1] # servers[2]
    /\ lastOp = "get"

(***************************************************************************)
(* C2: in health mode, while host a with quota q stays the lowest-latency  *)
(* up host, the first q get() calls of a quota window return a and the     *)
(* later ones do not: the (q+1)-th returns the fastest other host that is  *)
(* up and under its quota, or None when there is none.  The first get()    *)
(* after a completed probe cycle starts a new window: it returns a again   *)
(* and leaves a's counter at 1.                                            *)
(***************************************************************************)
SumCounts == LET RECURSIVE Sum(_)
                 Sum(S) == IF S = {} THEN 0
                           ELSE LET h == CHOOSE x \in S : TRUE
                                IN  request_counts[h] + Sum(S \ {h})
             IN  Sum(Hosts)

Min2(x, y) == IF x <= y THEN x ELSE y

\* Host h was up and under its quota when the get() that just returned ran.
EligibleBeforeGet(h) ==
    /\ status[h] # Down
    /\ \/ Limit(h) = NoLimit
       \/ request_counts[h] - (IF h = ret THEN 1 ELSE 0) < Limit(h)

IsNextFastest(a) ==
    LET others == {h \in Hosts \ {a} : EligibleBeforeGet(h)}
    IN  IF others = {} THEN ret = NoTarget
        ELSE /\ ret \in others
             /\ \A g \in others :
                   status[ret] < status[g]
                   \/ (status[ret] = status[g] /\ Pos(ret) <= Pos(g))

C2_Quota ==
    \A a \in Hosts :
        (healthMode /\ winBest = a /\ Limit(a) # NoLimit) =>
            /\ request_counts[a] = Min2(Limit(a), SumCounts)
            /\ (lastOp = "get" /\ ret # a) =>
                  (request_counts[a] = Limit(a) /\ IsNextFastest(a))
            /\ (lastOp = "get" /\ didReset /\ Limit(a) >= 1) =>
                  (ret = a /\ request_counts[a] = 1)

C2_Witness ==
    /\ healthMode
    /\ winBest = "A"
    /\ Limit("A") = 2
    /\ request_counts["A"] = 2
    /\ resets >= 1
    /\ lastOp = "get"
    /\ ret = "B"

(***************************************************************************)
(* C3 as claimed: peek() changes neither the cursor nor any request        *)
(* counter, in every state.                                                *)
(***************************************************************************)
C3_PeekChangesNothing ==
    [][lastOp' = "peek" =>
        (index' = index /\ request_counts' = request_counts)]_vars

(***************************************************************************)
(* C3 as amended: peek() never changes the cursor and never increments a   *)
(* request counter; in health mode it leaves the counters as they are,     *)
(* except that a peek() that is the first get()/peek() after a completed   *)
(* probe cycle resets every counter to zero.                               *)
(***************************************************************************)
C3_PeekOnlyResets ==
    [][lastOp' = "peek" =>
        /\ index' = index
        /\ request_counts' =
              IF healthMode /\ last_update > last_health_update
              THEN [h \in Hosts |-> 0]
              ELSE request_counts]_vars

C3_Witness ==
    /\ healthMode
    /\ lastOp = "peek"
    /\ didReset
    /\ resets = 2
    /\ ret = "B"
    /\ \A h \in Hosts : request_counts[h] = 0

(***************************************************************************)
(* C4: the selector resets its counters only on a get()/peek() that sees   *)
(* the monitor's timestamp strictly newer than the one it last observed;   *)
(* the first get()/peek() after a completed cycle resets exactly once and  *)
(* records the timestamp, a get()/peek() that sees no new timestamp does   *)
(* not reset; so there are never more resets than completed cycles.        *)
(***************************************************************************)
C4_ResetOncePerCycle ==
    /\ [](resets <= last_update /\ last_health_update <= last_update)
    /\ [][/\ resets' # resets =>
               /\ lastOp' \in {"get", "peek"}
               /\ last_update > last_health_update
               /\ resets' = resets + 1
               /\ didReset'
          /\ (healthMode /\ lastOp' \in {"get", "peek"}) =>
               /\ last_health_update' = last_update
               /\ resets' = IF last_update > last_health_update
                            THEN resets + 1 ELSE resets
               /\ didReset' = (last_update > last_health_update)]_vars

C4_Witness ==
    /\ healthMode
    /\ lastOp = "get"
    /\ didReset
    /\ resets = 2
    /\ last_update = 2
    /\ last_health_update = 2

(***************************************************************************)
(* C5: no get(), peek() or query of the monitor sees a snapshot in which   *)
(* some hosts carry the result of the running probe cycle and others still *)
(* the result of the cycle before.                                         *)
(***************************************************************************)
\* Task t is in the middle of a cycle: the hosts outside pending[t] carry
\* this cycle's result, those in pending[t] the previous one.
MixedSnapshot ==
    \E t \in TaskIds :
        taskState[t] = "check" /\ pending[t] # {} /\ pending[t] # Hosts

C5_AtomicSnapshot ==
    (healthMode /\ lastOp \in {"get", "peek", "query"}) => ~MixedSnapshot

(***************************************************************************)
(* C9: once a destroy() call has completed, no call creates a probe task   *)
(* again: self._task stays None.                                           *)
(***************************************************************************)
C9_DestroyedIsTerminal ==
    [][destroyed => task' \in {task, 0}]_vars

(***************************************************************************)
(* C10: a destroy() call that begins after an earlier destroy() has        *)
(* completed never calls aclose() on the client, raises nothing, and       *)
(* completes with the monitor where the first call left it: no task, and   *)
(* the client None if the monitor owned it (untouched if it did not).      *)
(***************************************************************************)
C10_DestroyIdempotent ==
    /\ \A c \in Callers : late[c] => callerPc[c] # "destroy_close"
    /\ lateDone =>
          /\ lastOp = "destroy"
          /\ ret = "None"
          /\ task = 0
          /\ client = IF owns_client THEN "None" ELSE "open"
    /\ (destroyed /\ owns_client) => client = "None"

C10_Witness ==
    /\ lateDone
    /\ owns_client
    /\ closes = 1
    /\ client = "None"
    /\ \E t \in TaskIds : taskState[t] = "done"


\* ======================================================================
\* proxy_pass: one HTTP relay (proxy_pass.py:21-139)
\* ======================================================================
\* A step is the code between two awaits.  After the relay has returned
\* its StreamingResponse the framework streams the body; it runs the
\* response's background task after the body has been sent, and only then:
\* an exception that ends the streaming leaves the framework first.

Methods == {"GET", "POST"}

\* rp_resp.status_code (proxy_pass.py:125): the upstream's status
UpstreamStatus == 200

\* content of the upstream request (proxy_pass.py:82-89)
ContentOf(m, ob) ==
    IF ob THEN "bytes"
    ELSE IF m \in {"POST", "PUT", "PATCH", "DELETE"} THEN "stream"
    ELSE "none"

\* except BaseException of the outer try (proxy_pass.py:134-139): the pc
\* after the handler has started.
OuterExceptPc(isGlobal) ==
    IF isGlobal THEN "raised" ELSE "err_client"

\* proxy_pass.py:40-101: resolve the headers, pick the client, build the
\* request, call send.
\* ok = FALSE: build_request raises.
HttpStart(ok) ==
    /\ hpc = "start"
    /\ headers' = OutboundHeaders
    /\ UNCHANGED httpIn
    /\ is_global_client' = shared
    /\ content' = ContentOf(method, override_body)
    /\ IF ok
       THEN /\ hpc' = "sending"
            /\ fallback' = IF shared THEN "none" ELSE "open"
            /\ UNCHANGED <<hexc, fallbackCloses>>
       ELSE /\ hpc' = OuterExceptPc(shared)
            /\ fallback' = IF shared THEN "none" ELSE "open"
            /\ hexc' = "error"
            /\ fallbackCloses' = IF shared THEN fallbackCloses
                                 ELSE fallbackCloses + 1
    /\ UNCHANGED <<shared, method, override_body, resp, hcancelled, chunks,
                   respCloses, sharedCloses>>
    /\ UNCHANGED <<staticVars, callVars, lbVars, hcVars, taskVars, lifeVars,
                   wsVars>>
    /\ UNCHANGED ctorVars
    /\ UNCHANGED hstatus

\* proxy_pass.py:101-128: send returns the opened response; the relay
\* filters the headers and returns the StreamingResponse.
\* ok = FALSE: the block raises and the inner except runs (129-132).
HttpSendReturns(ok) ==
    /\ hpc = "sending"
    /\ resp' = "open"
    /\ hstatus' = IF ok THEN UpstreamStatus ELSE hstatus
    /\ IF ok
       THEN /\ hpc' = "streaming"
            /\ UNCHANGED <<hexc, respCloses>>
       ELSE /\ hpc' = "err_resp"
            /\ hexc' = "error"
            /\ respCloses' = respCloses + 1
    /\ UNCHANGED <<shared, method, override_body, content, is_global_client,
                   fallback, hcancelled, chunks, fallbackCloses, sharedCloses>>
    /\ UNCHANGED <<staticVars, callVars, lbVars, hcVars, taskVars, lifeVars,
                   wsVars>>
    /\ UNCHANGED ctorVars
    /\ UNCHANGED <<httpIn, headers>>

\* proxy_pass.py:101, 134-139: send raises (the upstream is unreachable,
\* or the relay's task is cancelled while it waits).
HttpSendRaises(kind) ==
    /\ hpc = "sending"
    /\ kind = "cancelled" => ~hcancelled
    /\ hcancelled' = (hcancelled \/ kind = "cancelled")
    /\ hexc' = kind
    /\ hpc' = OuterExceptPc(is_global_client)
    /\ fallbackCloses' = IF is_global_client THEN fallbackCloses
                         ELSE fallbackCloses + 1
    /\ UNCHANGED <<shared, method, override_body, content, is_global_client,
                   fallback, resp, chunks, respCloses, sharedCloses>>
    /\ UNCHANGED <<staticVars, callVars, lbVars, hcVars, taskVars, lifeVars,
                   wsVars>>
    /\ UNCHANGED ctorVars
    /\ UNCHANGED <<httpIn, headers>>
    /\ UNCHANGED hstatus

\* proxy_pass.py:131-139: rp_resp.aclose() of the inner except returns,
\* the exception reaches the outer except.
HttpErrRespClosed ==
    /\ hpc = "err_resp"
    /\ resp' = "closed"
    /\ hpc' = OuterExceptPc(is_global_client)
    /\ fallbackCloses' = IF is_global_client THEN fallbackCloses
                         ELSE fallbackCloses + 1
    /\ UNCHANGED <<shared, method, override_body, content, is_global_client,
                   fallback, hexc, hcancelled, chunks, respCloses,
                   sharedCloses>>
    /\ UNCHANGED <<staticVars, callVars, lbVars, hcVars, taskVars, lifeVars,
                   wsVars>>
    /\ UNCHANGED ctorVars
    /\ UNCHANGED <<httpIn, headers>>
    /\ UNCHANGED hstatus

\* proxy_pass.py:137-139: client.aclose() of the outer except returns.
HttpErrClientClosed ==
    /\ hpc = "err_client"
    /\ fallback' = "closed"
    /\ hpc' = "raised"
    /\ UNCHANGED <<shared, method, override_body, content, is_global_client,
                   resp, hexc, hcancelled, chunks, respCloses, fallbackCloses,
                   sharedCloses>>
    /\ UNCHANGED <<staticVars, callVars, lbVars, hcVars, taskVars, lifeVars,
                   wsVars>>
    /\ UNCHANGED ctorVars
    /\ UNCHANGED <<httpIn, headers>>
    /\ UNCHANGED hstatus

\* proxy_pass.py:124: the framework pulls one chunk of rp_resp.aiter_bytes().
HttpChunk ==
    /\ hpc = "streaming"
    /\ chunks < MaxChunks
    /\ chunks' = chunks + 1
    /\ UNCHANGED <<hpc, shared, method, override_body, content,
                   is_global_client, fallback, resp, hexc, hcancelled,
                   respCloses, fallbackCloses, sharedCloses>>
    /\ UNCHANGED <<staticVars, callVars, lbVars, hcVars, taskVars, lifeVars,
                   wsVars>>
    /\ UNCHANGED ctorVars
    /\ UNCHANGED <<httpIn, headers>>
    /\ UNCHANGED hstatus

\* proxy_pass.py:118-119, 128: the body has been sent, the framework runs
\* the background task: cleanup calls rp_resp.aclose().
HttpStreamEnds ==
    /\ hpc = "streaming"
    /\ hpc' = "cleanup_resp"
    /\ respCloses' = respCloses + 1
    /\ UNCHANGED <<shared, method, override_body, content, is_global_client,
                   fallback, resp, hexc, hcancelled, chunks, fallbackCloses,
                   sharedCloses>>
    /\ UNCHANGED <<staticVars, callVars, lbVars, hcVars, taskVars, lifeVars,
                   wsVars>>
    /\ UNCHANGED ctorVars
    /\ UNCHANGED <<httpIn, headers>>
    /\ UNCHANGED hstatus

\* proxy_pass.py:119-121: rp_resp.aclose() of cleanup returns.
HttpCleanupRespClosed ==
    /\ hpc = "cleanup_resp"
    /\ resp' = "closed"
    /\ IF is_global_client
       THEN /\ hpc' = "done"
            /\ UNCHANGED fallbackCloses
       ELSE /\ hpc' = "cleanup_client"
            /\ fallbackCloses' = fallbackCloses + 1
    /\ UNCHANGED <<shared, method, override_body, content, is_global_client,
                   fallback, hexc, hcancelled, chunks, respCloses,
                   sharedCloses>>
    /\ UNCHANGED <<staticVars, callVars, lbVars, hcVars, taskVars, lifeVars,
                   wsVars>>
    /\ UNCHANGED ctorVars
    /\ UNCHANGED <<httpIn, headers>>
    /\ UNCHANGED hstatus

\* proxy_pass.py:120-121: client.aclose() of cleanup returns.
HttpCleanupClientClosed ==
    /\ hpc = "cleanup_client"
    /\ fallback' = "closed"
    /\ hpc' = "done"
    /\ UNCHANGED <<shared, method, override_body, content, is_global_client,
                   resp, hexc, hcancelled, chunks, respCloses, fallbackCloses,
                   sharedCloses>>
    /\ UNCHANGED <<staticVars, callVars, lbVars, hcVars, taskVars, lifeVars,
                   wsVars>>
    /\ UNCHANGED ctorVars
    /\ UNCHANGED <<httpIn, headers>>
    /\ UNCHANGED hstatus

\* proxy_pass.py:123-128: the streaming ends in an exception (the upstream
\* breaks while the body is read, or the task is cancelled).  The relay has
\* returned already: none of its except clauses is on the stack, and the
\* background task is not run.
HttpStreamAborts(kind) ==
    /\ hpc = "streaming"
    /\ kind = "cancelled" => ~hcancelled
    /\ hcancelled' = (hcancelled \/ kind = "cancelled")
    /\ hexc' = kind
    /\ hpc' = "raised"
    /\ UNCHANGED <<shared, method, override_body, content, is_global_client,
                   fallback, resp, chunks, respCloses, fallbackCloses,
                   sharedCloses>>
    /\ UNCHANGED <<staticVars, callVars, lbVars, hcVars, taskVars, lifeVars,
                   wsVars>>
    /\ UNCHANGED ctorVars
    /\ UNCHANGED <<httpIn, headers>>
    /\ UNCHANGED hstatus

\* One relay per behaviour, for every way of calling it.
InitHttp ==
    /\ servers = <<>>
    /\ InitStaticRest
    /\ hpc = "start"
    /\ inbound_headers \in InboundHeaderDicts
    /\ override_headers \in BOOLEAN
    /\ additional_headers \in BOOLEAN
    /\ headers = NoHeaders
    /\ hstatus = 0
    /\ shared \in BOOLEAN
    /\ method \in Methods
    /\ override_body \in BOOLEAN
    /\ content = "none"
    /\ is_global_client = FALSE
    /\ fallback = "none"
    /\ resp = "none"
    /\ hexc = ""
    /\ hcancelled = FALSE
    /\ chunks = 0
    /\ respCloses = 0
    /\ fallbackCloses = 0
    /\ sharedCloses = 0
    /\ wpc = "idle"
    /\ wtarget = FALSE
    /\ inbound = "connecting"
    /\ outbound = "none"
    /\ loopState = [d \in Directions |-> "unborn"]
    /\ msgs = [d \in Directions |-> 0]
    /\ wexc = ""
    /\ wcancelled = FALSE
    /\ closeCode = 0
    /\ closeCalls = 0
    /\ InitNoSub
    /\ InitNoCtor

NextHttp ==
    \/ \E ok \in BOOLEAN : HttpStart(ok)
    \/ \E ok \in BOOLEAN : HttpSendReturns(ok)
    \/ \E kind \in {"error", "cancelled"} : HttpSendRaises(kind)
    \/ HttpErrRespClosed
    \/ HttpErrClientClosed
    \/ HttpChunk
    \/ HttpStreamEnds
    \/ HttpCleanupRespClosed
    \/ HttpCleanupClientClosed
    \/ \E kind \in {"error", "cancelled"} : HttpStreamAborts(kind)

SpecHttp == InitHttp /\ [][NextHttp]_vars

\* ----------------------------------------------------------------------
\* C6: on every termination path of an HTTP relay after the upstream
\* response has been opened (normal end of the stream, an upstream error
\* in the middle of the stream, cancellation), the relay has released the
\* upstream response exactly once when it terminates; on cancellation the
\* release comes before the cancellation propagates.
C6_ResponseReleasedOnce ==
    (hpc \in {"done", "raised"} /\ resp # "none") =>
        /\ respCloses = 1
        /\ resp = "closed"


\* ======================================================================
\* proxy_pass_websocket: one WebSocket relay (proxy_pass.py:143-256),
\* entered through LoadBalancer.proxy_pass_websocket (load_balance.py:146-158)
\* ======================================================================
\* A step is the code between two awaits.  The relay's task is cancelled
\* from outside at most once, at any of its awaits.

\* websocket.close(code=1011) (load_balance.py:151)
CloseInternalError == 1011

\* Subprotocol names, and the lists of them a relay is called with; <<>>
\* stands for None and for the empty list, which "or" treats alike.
Subprotocols == {"v1", "v2"}

SubprotocolLists == {<<>>, <<"v1">>, <<"v1", "v2">>}

\* websocket.close() without a code (proxy_pass.py:206): the framework's
\* default, a normal closure
CloseDefault == 1000

LoopsDone == \A d \in Directions : loopState[d] = "done"

\* the finally of _handle_ws_bidirectional (proxy_pass.py:249-253):
\* task.cancel() for every task that is not done
CancelNone == loopState

CancelNotDone ==
    [d \in Directions |->
        IF loopState[d] = "done" THEN "done" ELSE "cancelling"]

\* the code of the first close call is the one the peer sees
CodeAfterClose(code) == IF closeCode = 0 THEN code ELSE closeCode

\* the finally of proxy_pass_websocket (proxy_pass.py:204-208) calls
\* websocket.close()
FinalCloseCalls == closeCalls + 1

\* load_balance.py:146-158, proxy_pass.py:156-195: without a target the
\* inbound connection is closed with 1011; with one, the relay connects.
WsStart ==
    /\ wpc = "start"
    /\ IF wtarget
       THEN /\ wpc' = "connecting"
            /\ connectCalls' = connectCalls + 1
            /\ UNCHANGED <<closeCode, closeCalls>>
       ELSE /\ wpc' = "lb_closing"
            /\ closeCode' = CodeAfterClose(CloseInternalError)
            /\ closeCalls' = closeCalls + 1
            /\ UNCHANGED connectCalls
    /\ UNCHANGED <<wtarget, inbound, outbound, loopState, msgs, wexc,
                   wcancelled>>
    /\ UNCHANGED <<subprotocols, scope_subprotocols, negotiated,
                   accept_subprotocol>>
    /\ UNCHANGED <<staticVars, callVars, lbVars, hcVars, taskVars, lifeVars,
                   httpVars>>
    /\ UNCHANGED ctorVars

\* load_balance.py:151-152: websocket.close(code=1011) returns.
WsLbClosed ==
    /\ wpc = "lb_closing"
    /\ inbound' = "closed"
    /\ wpc' = "done"
    /\ UNCHANGED <<wtarget, outbound, loopState, msgs, wexc, wcancelled,
                   closeCode, closeCalls>>
    /\ UNCHANGED <<staticVars, callVars, lbVars, hcVars, taskVars, lifeVars,
                   httpVars>>
    /\ UNCHANGED <<ctorVars, subVars>>

\* proxy_pass.py:182: subprotocols or websocket.scope.get("subprotocols")
SupportedSubprotocols ==
    IF subprotocols # <<>> THEN subprotocols ELSE scope_subprotocols

\* target_ws.subprotocol after the handshake: one of the subprotocols the
\* relay offered, or None.
Negotiable ==
    {"None"} \cup
    {SupportedSubprotocols[i] : i \in 1..Len(SupportedSubprotocols)}

\* an accept with the first subprotocol the relay offered
AcceptSubprotocolGuessed(target_subprotocol) ==
    IF SupportedSubprotocols = <<>> THEN "None"
    ELSE SupportedSubprotocols[1]

\* proxy_pass.py:197: websocket.accept(subprotocol=target_ws.subprotocol)
AcceptSubprotocol(target_subprotocol) == target_subprotocol

\* proxy_pass.py:195-197: the outbound handshake has succeeded with the
\* subprotocol p; the relay calls websocket.accept(subprotocol=p).
WsConnected(p) ==
    /\ wpc = "connecting"
    /\ p \in Negotiable
    /\ outbound' = "open"
    /\ negotiated' = p
    /\ accept_subprotocol' = AcceptSubprotocol(p)
    /\ wpc' = "accepting"
    /\ UNCHANGED <<wtarget, inbound, loopState, msgs, wexc, wcancelled,
                   closeCode, closeCalls>>
    /\ UNCHANGED <<subprotocols, scope_subprotocols, connectCalls>>
    /\ UNCHANGED <<staticVars, callVars, lbVars, hcVars, taskVars, lifeVars,
                   httpVars>>
    /\ UNCHANGED ctorVars

\* proxy_pass.py:195, 200-206: websockets.connect raises (the connect
\* fails, or the task is cancelled); the exception is raised again and the
\* finally calls websocket.close().
WsConnectFails(kind) ==
    /\ wpc = "connecting"
    /\ kind = "cancelled" => ~wcancelled
    /\ wcancelled' = (wcancelled \/ kind = "cancelled")
    /\ wexc' = kind
    /\ closeCode' = CodeAfterClose(CloseDefault)
    /\ closeCalls' = FinalCloseCalls
    /\ wpc' = "closing_inbound"
    /\ UNCHANGED <<wtarget, inbound, outbound, loopState, msgs>>
    /\ UNCHANGED <<staticVars, callVars, lbVars, hcVars, taskVars, lifeVars,
                   httpVars>>
    /\ UNCHANGED <<ctorVars, subVars>>

\* proxy_pass.py:197-198, 230-242: accept returns; _handle_ws_bidirectional
\* creates the two tasks and waits for the first to finish.
WsAccepted ==
    /\ wpc = "accepting"
    /\ inbound' = "accepted"
    /\ loopState' = [d \in Directions |-> "recv"]
    /\ wpc' = "waiting"
    /\ UNCHANGED <<wtarget, outbound, msgs, wexc, wcancelled, closeCode,
                   closeCalls>>
    /\ UNCHANGED <<staticVars, callVars, lbVars, hcVars, taskVars, lifeVars,
                   httpVars>>
    /\ UNCHANGED <<ctorVars, subVars>>

\* proxy_pass.py:197, 195: accept raises; the async with starts to close
\* the outbound connection.
WsAcceptFails(kind) ==
    /\ wpc = "accepting"
    /\ kind = "cancelled" => ~wcancelled
    /\ wcancelled' = (wcancelled \/ kind = "cancelled")
    /\ wexc' = kind
    /\ wpc' = "closing_target"
    /\ UNCHANGED <<wtarget, inbound, outbound, loopState, msgs, closeCode,
                   closeCalls>>
    /\ UNCHANGED <<staticVars, callVars, lbVars, hcVars, taskVars, lifeVars,
                   httpVars>>
    /\ UNCHANGED <<ctorVars, subVars>>

\* proxy_pass.py:217-224, 232-238: a loop has received a message and
\* forwards it.
LoopMessage(d) ==
    /\ loopState[d] = "recv"
    /\ msgs[d] < MaxMsgs
    /\ loopState' = [loopState EXCEPT ![d] = "send"]
    /\ UNCHANGED <<wpc, wtarget, inbound, outbound, msgs, wexc, wcancelled,
                   closeCode, closeCalls>>
    /\ UNCHANGED <<staticVars, callVars, lbVars, hcVars, taskVars, lifeVars,
                   httpVars>>
    /\ UNCHANGED <<ctorVars, subVars>>

\* proxy_pass.py:219-224, 235-238: the message is forwarded.
LoopSent(d) ==
    /\ loopState[d] = "send"
    /\ loopState' = [loopState EXCEPT ![d] = "recv"]
    /\ msgs' = [msgs EXCEPT ![d] = msgs[d] + 1]
    /\ UNCHANGED <<wpc, wtarget, inbound, outbound, wexc, wcancelled,
                   closeCode, closeCalls>>
    /\ UNCHANGED <<staticVars, callVars, lbVars, hcVars, taskVars, lifeVars,
                   httpVars>>
    /\ UNCHANGED <<ctorVars, subVars>>

\* proxy_pass.py:225-228, 239-240: a loop ends on its own: the client
\* disconnects (gone = TRUE, client_to_target only, at its receive) or an
\* await of the loop raises.
LoopEnds(d, gone) ==
    /\ loopState[d] \in {"recv", "send"}
    /\ gone => (d = "c2t" /\ loopState[d] = "recv")
    /\ loopState' = [loopState EXCEPT ![d] = "done"]
    /\ inbound' = IF gone THEN "closed" ELSE inbound
    /\ UNCHANGED <<wpc, wtarget, outbound, msgs, wexc, wcancelled, closeCode,
                   closeCalls>>
    /\ UNCHANGED <<staticVars, callVars, lbVars, hcVars, taskVars, lifeVars,
                   httpVars>>
    /\ UNCHANGED <<ctorVars, subVars>>

\* proxy_pass.py:227-228, 239-240: a cancelled loop catches the
\* CancelledError and ends.
LoopCancelled(d) ==
    /\ loopState[d] = "cancelling"
    /\ loopState' = [loopState EXCEPT ![d] = "done"]
    /\ UNCHANGED <<wpc, wtarget, inbound, outbound, msgs, wexc, wcancelled,
                   closeCode, closeCalls>>
    /\ UNCHANGED <<staticVars, callVars, lbVars, hcVars, taskVars, lifeVars,
                   httpVars>>
    /\ UNCHANGED <<ctorVars, subVars>>

\* proxy_pass.py:245-253: asyncio.wait returns because a loop is done, or
\* raises because the relay is cancelled (cancel = TRUE); the finally
\* cancels the loops that are not done and awaits gather.
WsWaitEnds(cancel) ==
    /\ wpc = "waiting"
    /\ IF cancel
       THEN /\ ~wcancelled
            /\ wcancelled' = TRUE
            /\ wexc' = "cancelled"
       ELSE /\ \E d \in Directions : loopState[d] = "done"
            /\ UNCHANGED <<wcancelled, wexc>>
    /\ loopState' = CancelNotDone
    /\ wpc' = "gathering"
    /\ UNCHANGED <<wtarget, inbound, outbound, msgs, closeCode, closeCalls>>
    /\ UNCHANGED <<staticVars, callVars, lbVars, hcVars, taskVars, lifeVars,
                   httpVars>>
    /\ UNCHANGED <<ctorVars, subVars>>

\* proxy_pass.py:253: the relay is cancelled while it awaits gather; gather
\* passes the cancellation to the loops and raises once they are done.
WsGatherCancelled ==
    /\ wpc = "gathering"
    /\ ~wcancelled
    /\ wcancelled' = TRUE
    /\ wexc' = "cancelled"
    /\ loopState' = CancelNotDone
    /\ UNCHANGED <<wpc, wtarget, inbound, outbound, msgs, closeCode,
                   closeCalls>>
    /\ UNCHANGED <<staticVars, callVars, lbVars, hcVars, taskVars, lifeVars,
                   httpVars>>
    /\ UNCHANGED <<ctorVars, subVars>>

\* proxy_pass.py:253, 195: both loops are done, gather ends; the async
\* with starts to close the outbound connection.
WsGatherEnds ==
    /\ wpc = "gathering"
    /\ LoopsDone
    /\ wpc' = "closing_target"
    /\ UNCHANGED <<wtarget, inbound, outbound, loopState, msgs, wexc,
                   wcancelled, closeCode, closeCalls>>
    /\ UNCHANGED <<staticVars, callVars, lbVars, hcVars, taskVars, lifeVars,
                   httpVars>>
    /\ UNCHANGED <<ctorVars, subVars>>

\* proxy_pass.py:195, 200-206: the exit of the async with ends (or is cut
\* short by a cancellation, cancel = TRUE); the finally calls
\* websocket.close().
WsTargetClosed(cancel) ==
    /\ wpc = "closing_target"
    /\ IF cancel
       THEN /\ ~wcancelled
            /\ wcancelled' = TRUE
            /\ wexc' = "cancelled"
            /\ outbound' = "closing"
       ELSE /\ outbound' = "closed"
            /\ UNCHANGED <<wcancelled, wexc>>
    /\ closeCode' = CodeAfterClose(CloseDefault)
    /\ closeCalls' = FinalCloseCalls
    /\ wpc' = "closing_inbound"
    /\ UNCHANGED <<wtarget, inbound, loopState, msgs>>
    /\ UNCHANGED <<staticVars, callVars, lbVars, hcVars, taskVars, lifeVars,
                   httpVars>>
    /\ UNCHANGED <<ctorVars, subVars>>

\* proxy_pass.py:205-208: websocket.close() returns, or raises an Exception
\* that is swallowed (the client had gone already).
WsInboundClosed ==
    /\ wpc = "closing_inbound"
    /\ inbound' = "closed"
    /\ wpc' = IF wexc = "" THEN "done" ELSE "raised"
    /\ UNCHANGED <<wtarget, outbound, loopState, msgs, wexc, wcancelled,
                   closeCode, closeCalls>>
    /\ UNCHANGED <<staticVars, callVars, lbVars, hcVars, taskVars, lifeVars,
                   httpVars>>
    /\ UNCHANGED <<ctorVars, subVars>>

\* proxy_pass.py:205-208: the relay is cancelled while it awaits
\* websocket.close(); except Exception does not catch the CancelledError.
WsInboundCloseCancelled ==
    /\ wpc = "closing_inbound"
    /\ ~wcancelled
    /\ wcancelled' = TRUE
    /\ wexc' = "cancelled"
    /\ wpc' = "close_cancelled"
    /\ UNCHANGED <<wtarget, inbound, outbound, loopState, msgs, closeCode,
                   closeCalls>>
    /\ UNCHANGED <<staticVars, callVars, lbVars, hcVars, taskVars, lifeVars,
                   httpVars>>
    /\ UNCHANGED <<ctorVars, subVars>>

\* One relay per behaviour; the selector has a target for it or has none.
InitWs ==
    /\ servers = <<>>
    /\ InitStaticRest
    /\ hpc = "idle"
    /\ inbound_headers = NoHeaders
    /\ override_headers = FALSE
    /\ additional_headers = FALSE
    /\ headers = NoHeaders
    /\ hstatus = 0
    /\ shared = TRUE
    /\ method = "GET"
    /\ override_body = FALSE
    /\ content = "none"
    /\ is_global_client = FALSE
    /\ fallback = "none"
    /\ resp = "none"
    /\ hexc = ""
    /\ hcancelled = FALSE
    /\ chunks = 0
    /\ respCloses = 0
    /\ fallbackCloses = 0
    /\ sharedCloses = 0
    /\ wpc = "start"
    /\ wtarget \in BOOLEAN
    /\ inbound = "connecting"
    /\ outbound = "none"
    /\ loopState = [d \in Directions |-> "unborn"]
    /\ msgs = [d \in Directions |-> 0]
    /\ wexc = ""
    /\ wcancelled = FALSE
    /\ closeCode = 0
    /\ closeCalls = 0
    /\ subprotocols \in SubprotocolLists
    /\ scope_subprotocols \in SubprotocolLists
    /\ negotiated = "-"
    /\ accept_subprotocol = "-"
    /\ connectCalls = 0
    /\ InitNoCtor

NextWs ==
    \/ WsStart
    \/ WsLbClosed
    \/ \E p \in Subprotocols \cup {"None"} : WsConnected(p)
    \/ \E kind \in {"error", "cancelled"} : WsConnectFails(kind)
    \/ WsAccepted
    \/ \E kind \in {"error", "cancelled"} : WsAcceptFails(kind)
    \/ \E d \in Directions : LoopMessage(d)
    \/ \E d \in Directions : LoopSent(d)
    \/ \E d \in Directions, gone \in BOOLEAN : LoopEnds(d, gone)
    \/ \E d \in Directions : LoopCancelled(d)
    \/ \E cancel \in BOOLEAN : WsWaitEnds(cancel)
    \/ WsGatherCancelled
    \/ WsGatherEnds
    \/ \E cancel \in BOOLEAN : WsTargetClosed(cancel)
    \/ WsInboundClosed
    \/ WsInboundCloseCancelled

SpecWs == InitWs /\ [][NextWs]_vars

LoopsStarted == \A d \in Directions : loopState[d] # "unborn"

ConnectFailed == wtarget /\ outbound = "none" /\ wexc # ""

C8_ConnectFailure ==
    (ConnectFailed /\ wpc \in {"closing_inbound", "raised"}) =>
        /\ closeCode = CloseInternalError
        /\ \A d \in Directions : loopState[d] = "unborn"

\* ----------------------------------------------------------------------
\* C11: stop() on a running monitor cancels the probe-loop task and
\* returns only after that task has ended; from the return of stop() to
\* the next start() no probe writes to the snapshot (no task runs, no
\* probe is outstanding); stop() on a stopped monitor changes nothing.
RunningTasks == {t \in TaskIds : taskState[t] \in {"check", "sleep"}}

C11_StopInv ==
    /\ \A c \in Callers : callerPc[c] \in {"stop_wait", "destroy_wait"} =>
          taskState[awaited[c]] \in {"cancelling", "done"}
    /\ \A t \in TaskIds : taskState[t] \notin {"check"} => pending[t] = {}
    /\ lastOp = "stop" =>
          /\ task = 0
          /\ \A t \in TaskIds : taskState[t] \in {"unborn", "done"}
    /\ task = 0 => RunningTasks = {}

C11_StopStep ==
    /\ (task = 0 /\ task' = 0) => status' = status
    /\ (lastOp' = "stop" /\ task = 0 /\ callerPc' = callerPc) =>
          UNCHANGED <<hcVars, taskVars, lifeVars>>

C11_Stop == []C11_StopInv /\ [][C11_StopStep]_vars

\* The parts of C11 that hold: a caller suspended in stop() awaits a task
\* that was cancelled, resumes only when it is done, and stop() on a
\* monitor without a task changes nothing.
C11_StopAwaitsInv ==
    \A c \in Callers : callerPc[c] \in {"stop_wait", "destroy_wait"} =>
        taskState[awaited[c]] \in {"cancelling", "done"}

C11_StopAwaitsStep ==
    /\ \A c \in Callers :
          (callerPc[c] = "stop_wait" /\ callerPc'[c] = "idle") =>
              taskState[awaited[c]] = "done"
    /\ (lastOp' = "stop" /\ task = 0 /\ callerPc' = callerPc) =>
          UNCHANGED <<hcVars, taskVars, lifeVars>>

C11_StopAwaits == []C11_StopAwaitsInv /\ [][C11_StopAwaitsStep]_vars

\* A stop() that had to wait has returned after probes had written.
C11_Witness ==
    /\ lastOp = "stop"
    /\ task = 0
    /\ \E t \in TaskIds : taskState[t] = "done"
    /\ \E h \in Hosts : status[h] # 0
    /\ last_update > 0

\* ----------------------------------------------------------------------
\* C12: after every completed probe cycle each origin of the registry is
\* in exactly one of get_healthy_targets() and the origins whose status is
\* down: the two are disjoint and together they are the whole registry.
DownHosts == {h \in Hosts : status[h] = Down}

HealthySet == {HealthyTargets[i] : i \in 1..Len(HealthyTargets)}

C12_HealthyDownPartition ==
    /\ HealthySet \cup DownHosts = Hosts
    /\ HealthySet \cap DownHosts = {}
    /\ Len(HealthyTargets) + Cardinality(DownHosts) = Len(targets)

\* A cycle has completed with one origin up and one down.
C12_Witness ==
    /\ last_update > 0
    /\ \A t \in TaskIds : taskState[t] = "sleep" \/ taskState[t] = "unborn"
    /\ HealthySet # {}
    /\ DownHosts # {}

\* ----------------------------------------------------------------------
\* C13: get_fastest() returns an up origin of least latency, and
\* get()/peek() in health mode an up origin under its quota of least
\* latency; among several of least latency the one earliest in the
\* registry is returned; None is returned exactly when there is no
\* candidate.
\* Host h was up and under its quota when the get()/peek() that just
\* returned looked at it.
EligibleBeforeCall(h) ==
    /\ status[h] # Down
    /\ \/ Limit(h) = NoLimit
       \/ request_counts[h] - (IF lastOp = "get" /\ h = ret THEN 1 ELSE 0)
             < Limit(h)

IsFirstMinimumOf(S) ==
    IF S = {} THEN ret = NoTarget
    ELSE /\ ret \in S
         /\ \A g \in S : status[ret] <= status[g]
         /\ \A g \in S : status[g] = status[ret] => Pos(ret) <= Pos(g)

C13_MinimumLatency ==
    healthMode =>
        /\ lastOp = "query" =>
              IsFirstMinimumOf({h \in Hosts : status[h] # Down})
        /\ lastOp \in {"get", "peek"} =>
              IsFirstMinimumOf({h \in Hosts : EligibleBeforeCall(h)})

\* Two eligible origins of equal latency, after a completed cycle: get()
\* has returned the first.
C13_Witness ==
    /\ healthMode
    /\ lastOp = "get"
    /\ last_update > 0
    /\ status["A"] = status["B"]
    /\ status["A"] # Down
    /\ EligibleBeforeCall("B")
    /\ ret = "A"

\* ----------------------------------------------------------------------
\* C14: for an HTTP relay without override_headers, whatever headers the
\* inbound request carries, the headers of the upstream request have a
\* forwarded-for header whose last item is the caller's address, and have
\* no connection, host, transfer-encoding or other hop-by-hop header.
HopByHop == EXCLUDED_HEADERS \cup {"host"}

C14_OutboundHeaders ==
    (hpc \notin {"idle", "start"} /\ ~override_headers) =>
        /\ \E n \in DOMAIN headers :
              /\ Lower(n) = "x-forwarded-for"
              /\ headers[n][Len(headers[n])] = ClientHost
        /\ \A n \in DOMAIN headers : Lower(n) \notin HopByHop

\* ----------------------------------------------------------------------
\* C15: when the selection of LoadBalancer.proxy_pass finds no origin
\* (empty static list; or, in health mode, every origin down or at its
\* quota), the call returns a 503 response, sends nothing upstream and
\* raises nothing; otherwise it enters the relay.
NoCandidate ==
    IF healthMode
    THEN \A h \in Hosts :
            \/ status[h] = Down
            \/ /\ Limit(h) # NoLimit
               /\ (IF last_update > last_health_update
                   THEN 0 ELSE request_counts[h]) >= Limit(h)
    ELSE servers = <<>>

C15_NoTarget503 ==
    [][lastOp' = "proxy_pass" =>
          IF NoCandidate
          THEN /\ ret' = "503"
               /\ hstatus' = 503
               /\ hpc' = "done"
               /\ hexc' = ""
               /\ resp' = "none"
               /\ UNCHANGED <<headers, fallback, respCloses, wsVars>>
          ELSE /\ ret' # "503"
               /\ hpc' = "start"]_vars

\* Every origin is up and at its quota of at least one request: the
\* request got the 503 response.
C15_Witness ==
    /\ healthMode
    /\ lastOp = "proxy_pass"
    /\ ret = "503"
    /\ hstatus = 503
    /\ \A h \in Hosts :
          /\ status[h] \in Latencies
          /\ Limit(h) >= 1
          /\ request_counts[h] = Limit(h)

\* ----------------------------------------------------------------------
\* C16: when LoadBalancer.destroy() (or its scoped exit) on a selector in
\* health mode has completed, the monitor it wraps is destroyed: it has no
\* probe task and, if it owns its client, the client is released.
C16_SelectorDestroysMonitor ==
    (healthMode /\ lastOp = "lb_destroy") =>
        /\ task = 0
        /\ RunningTasks = {}
        /\ owns_client => client = "None"

ElemKinds == {"str", "dict", "dict_nohost", "int"}

\* type(t)
TypeOf(k) == IF k \in {"dict", "dict_nohost"} THEN "dict" ELSE k

\* the host the element at position i names
CtorHosts == <<"A", "B", "C", "D", "E">>

\* health_check.py:35-40: the element at position i makes the loop raise.
BadElem(tl, i) ==
    \/ TypeOf(tl[i]) # TypeOf(tl[1])
    \/ tl[i] = "dict_nohost"

\* the last position at which the loop would raise
LastBadPos(tl) ==
    CHOOSE i \in 1..Len(tl) :
        BadElem(tl, i) /\ \A j \in (i + 1)..Len(tl) : ~BadElem(tl, j)

\* health_check.py:34-40: the position at which the loop raises.
FirstBadPos(tl) ==
    CHOOSE i \in 1..Len(tl) :
        BadElem(tl, i) /\ \A j \in 1..(i - 1) : ~BadElem(tl, j)

\* health_check.py:13-40: the exception __init__ raises, "" if none.
CtorError(tl, interval, timeout) ==
    IF tl = <<>> THEN "ValueError"
    ELSE IF interval < 1 \/ timeout < 1 THEN "ValueError"
    ELSE IF TypeOf(tl[1]) \notin {"str", "dict"} THEN "TypeError"
    ELSE IF \E i \in 1..Len(tl) : BadElem(tl, i)
         THEN IF TypeOf(tl[FirstBadPos(tl)]) # TypeOf(tl[1])
              THEN "TypeError" ELSE "KeyError"
    ELSE ""

\* health_check.py:34-40: the index in the exception's message (enumerate
\* counts from 0), -1 when the message names none.
CtorErrorIndex(tl, interval, timeout) ==
    IF /\ tl # <<>>
       /\ interval >= 1 /\ timeout >= 1
       /\ TypeOf(tl[1]) \in {"str", "dict"}
       /\ \E i \in 1..Len(tl) : BadElem(tl, i)
    THEN FirstBadPos(tl) - 1
    ELSE -1

\* HealthChecker(targets, interval, timeout, autostart) runs
\* (health_check.py:12-64): it raises, or the monitor exists with its
\* registry, its status dict, its own client and, with autostart, its task.
Construct ==
    /\ ctorErr = "pending"
    /\ ctorErr' = CtorError(ctor_targets, ctor_interval, ctor_timeout)
    /\ ctorIdx' = CtorErrorIndex(ctor_targets, ctor_interval, ctor_timeout)
    /\ IF CtorError(ctor_targets, ctor_interval, ctor_timeout) = ""
       THEN /\ targets' = SubSeq(CtorHosts, 1, Len(ctor_targets))
            /\ status' = [h \in {CtorHosts[i] : i \in 1..Len(ctor_targets)}
                             |-> InitialStatus]
            /\ is_personalized' = (TypeOf(ctor_targets[1]) = "dict")
            /\ task' = IF ctor_autostart THEN 1 ELSE 0
            /\ taskState' = [t \in TaskIds |->
                               IF ctor_autostart /\ t = 1 THEN "check"
                               ELSE "unborn"]
            /\ pending' = [t \in TaskIds |->
                             IF ctor_autostart /\ t = 1
                             THEN {CtorHosts[i] : i \in 1..Len(ctor_targets)}
                             ELSE {}]
            /\ client' = "open"
            /\ owns_client' = TRUE
       ELSE UNCHANGED <<targets, status, is_personalized, task, taskState,
                        pending, client, owns_client>>
    /\ lastOp' = "HealthChecker"
    /\ ret' = "-"
    /\ didReset' = FALSE
    /\ lateDone' = FALSE
    /\ peekedBefore' = "-"
    /\ UNCHANGED <<ctor_targets, ctor_interval, ctor_timeout, ctor_autostart>>
    /\ UNCHANGED <<last_update, callerPc, awaited, waitq, cont, closes, destroyed,
                   late>>
    /\ UNCHANGED <<staticVars, lbVars, httpVars, wsVars>>

\* A constructor call with any arguments; no monitor exists yet.
InitCtor ==
    /\ servers = <<>>
    /\ InitStaticRest
    /\ hpc = "idle"
    /\ inbound_headers = NoHeaders
    /\ override_headers = FALSE
    /\ additional_headers = FALSE
    /\ headers = NoHeaders
    /\ hstatus = 0
    /\ shared = TRUE
    /\ method = "GET"
    /\ override_body = FALSE
    /\ content = "none"
    /\ is_global_client = FALSE
    /\ fallback = "none"
    /\ resp = "none"
    /\ hexc = ""
    /\ hcancelled = FALSE
    /\ chunks = 0
    /\ respCloses = 0
    /\ fallbackCloses = 0
    /\ sharedCloses = 0
    /\ wpc = "idle"
    /\ wtarget = FALSE
    /\ inbound = "connecting"
    /\ outbound = "none"
    /\ loopState = [d \in Directions |-> "unborn"]
    /\ msgs = [d \in Directions |-> 0]
    /\ wexc = ""
    /\ wcancelled = FALSE
    /\ closeCode = 0
    /\ closeCalls = 0
    /\ InitNoSub
    /\ ctor_targets \in SeqsUpTo(ElemKinds, MaxTargets)
    /\ ctor_interval \in {0, 1}
    /\ ctor_timeout \in {0, 1}
    /\ ctor_autostart \in BOOLEAN
    /\ ctorErr = "pending"
    /\ ctorIdx = -1

NextCtor == Construct

SpecCtor == InitCtor /\ [][NextCtor]_vars

\* ----------------------------------------------------------------------
\* C18: HealthChecker(targets) with an empty list raises ValueError; given
\* valid interval and timeout and a list that mixes address strings and
\* dicts with a "host" key, it raises TypeError and the message names the
\* index of the first element whose type is not the first element's; in
\* both cases no monitor exists afterwards: no registry, no client, no
\* probe task.
NoMonitor ==
    /\ targets = <<>>
    /\ task = 0
    /\ \A t \in TaskIds : taskState[t] = "unborn"
    /\ client = "None"

MixedWellFormed(tl) ==
    /\ \A i \in 1..Len(tl) : tl[i] \in {"str", "dict"}
    /\ \E i \in 1..Len(tl) : tl[i] # tl[1]

C18_ConstructorRejects ==
    ctorErr \notin {"idle", "pending"} =>
        /\ ctor_targets = <<>> => (ctorErr = "ValueError" /\ NoMonitor)
        /\ (/\ ctor_interval >= 1
            /\ ctor_timeout >= 1
            /\ MixedWellFormed(ctor_targets)) =>
              /\ ctorErr = "TypeError"
              /\ ctorIdx >= 1
              /\ ctor_targets[ctorIdx + 1] # ctor_targets[1]
              /\ \A j \in 1..ctorIdx : ctor_targets[j] = ctor_targets[1]
              /\ NoMonitor

\* Two strings, then a dict, with autostart: TypeError at index 2.
C18_Witness ==
    /\ ctor_targets = <<"str", "str", "dict">>
    /\ ctor_autostart
    /\ ctorErr = "TypeError"
    /\ ctorIdx = 2
    /\ NoMonitor

\* ----------------------------------------------------------------------
\* C19: a probe that ends in a status >= 400, a timeout, a connection
\* failure or any other exception stores down for its own origin only and
\* leaves the probe task and the other probes of the cycle as they are; the
\* cycle completes exactly when no probe is pending, keeping every result
\* recorded in it; and the task that completed a cycle is asleep, from
\* where it starts the next cycle.
FailedProbe(t, h) ==
    /\ h \in pending[t]
    /\ pending'[t] = pending[t] \ {h}
    /\ status'[h] = Down

C19_FailedProbeStep ==
    \A t \in TaskIds, h \in Hosts :
        FailedProbe(t, h) =>
            /\ \A g \in Hosts \ {h} : status'[g] = status[g]
            /\ taskState' = taskState
            /\ task' = task
            /\ targets' = targets

C19_CycleStep ==
    \A t \in TaskIds :
        (taskState[t] = "check" /\ taskState'[t] \notin {"check", "done"}) =>
            /\ pending[t] = {}
            /\ status' = status
            /\ taskState'[t] = "sleep"

C19_CycleCompletes ==
    \A t \in TaskIds :
        (taskState[t] = "check" /\ pending[t] = {} /\ ~Draining) =>
            ENABLED CycleComplete(t)

C19_LoopContinues ==
    \A t \in TaskIds :
        (taskState[t] = "sleep" /\ last_update < MaxCycles /\ ~Draining) =>
            ENABLED WakeUp(t)

C19_ProbeFailureIsolated ==
    /\ [](C19_CycleCompletes /\ C19_LoopContinues)
    /\ [][C19_FailedProbeStep /\ C19_CycleStep]_vars

\* A cycle in which A was found down and B answered has completed, and the
\* probe task has started the next cycle.
C19_Witness ==
    /\ healthMode
    /\ last_update >= 1
    /\ status["A"] = Down
    /\ status["B"] \in Latencies
    /\ taskState[task] = "check"
    /\ pending[task] = Hosts

\* ----------------------------------------------------------------------
\* C20: websocket.accept is called only once the outbound handshake has
\* succeeded, and with the subprotocol the outbound connection negotiated;
\* an inbound connection is accepted only through that call.  When the
\* selector has no target, the inbound connection is closed with code 1011,
\* accept is never called, the connection is never accepted and
\* websockets.connect is never called.
C20_AcceptAfterHandshake ==
    /\ accept_subprotocol # "-" =>
          /\ wtarget
          /\ connectCalls = 1
          /\ outbound # "none"
          /\ negotiated \in Negotiable
          /\ accept_subprotocol = negotiated
    /\ inbound = "accepted" => accept_subprotocol # "-"
    /\ (~wtarget /\ wpc # "start") =>
          /\ closeCode = CloseInternalError
          /\ closeCalls = 1
    /\ ~wtarget =>
          /\ inbound # "accepted"
          /\ accept_subprotocol = "-"
          /\ connectCalls = 0
          /\ outbound = "none"

\* The relay offered v1 and v2, the target chose v2, and the inbound
\* connection is accepted with v2.
C20_Witness ==
    /\ wtarget
    /\ SupportedSubprotocols = <<"v1", "v2">>
    /\ negotiated = "v2"
    /\ inbound = "accepted"
    /\ accept_subprotocol = "v2"

\* ----------------------------------------------------------------------
\* C21: on a selector whose monitor is personalized, reading and assigning
\* max_requests raise RuntimeError and leave the per-origin quotas and the
\* global quota as they were; on a uniform monitor the assignment succeeds
\* and from then on every origin's quota is the assigned value, and a read
\* returns the global quota.
C21_GlobalQuotaStep ==
    lastOp' \in {"max_requests=", "max_requests"} =>
        IF healthMode /\ is_personalized
        THEN /\ ret' = "RuntimeError"
             /\ limits_map' = limits_map
             /\ global_max_requests' = global_max_requests
             /\ quotaRead' = quotaRead
        ELSE /\ ret' # "RuntimeError"
             /\ lastOp' = "max_requests=" =>
                  /\ global_max_requests' = quotaArg'
                  /\ \A h \in Hosts :
                        /\ limits_map'[h] = quotaArg'
                        /\ Limit(h)' = quotaArg'
             /\ lastOp' = "max_requests" =>
                  /\ quotaRead' = global_max_requests
                  /\ limits_map' = limits_map
                  /\ global_max_requests' = global_max_requests

C21_GlobalQuota == [][C21_GlobalQuotaStep]_vars

\* On a uniform monitor the quota was changed to 1 and every origin has it.
C21_Witness ==
    /\ healthMode
    /\ ~is_personalized
    /\ lastOp = "max_requests="
    /\ quotaArg = 1
    /\ global_max_requests = 1
    /\ \A h \in Hosts : limits_map[h] = 1

\* On a personalized monitor with different quotas an assignment was
\* rejected.
C21_WitnessRejected ==
    /\ healthMode
    /\ is_personalized
    /\ lastOp = "max_requests="
    /\ ret = "RuntimeError"
    /\ limits_map["A"] # limits_map["B"]

\* ----------------------------------------------------------------------
\* C22: in static mode set_index(i) is accepted exactly when
\* 0 <= i < len(servers) and otherwise raises and leaves the cursor where it
\* was; in health mode it always raises RuntimeError; the cursor of a
\* non-empty list is always one of its indices; and with an empty list
\* get() and peek() return None.
SetIndexErrors == {"RuntimeError", "IndexError"}

C22_SetIndexStep ==
    \A i \in -1..MaxServers :
        SetIndex(i) =>
            IF healthMode
            THEN ret' = "RuntimeError" /\ index' = index
            ELSE IF 0 <= i /\ i < Len(servers)
            THEN ret' \notin SetIndexErrors /\ index' = i
            ELSE ret' \in SetIndexErrors /\ index' = index

C22_CursorValid ==
    (~healthMode /\ servers # <<>>) => (0 <= index /\ index < Len(servers))

C22_EmptyListNone ==
    (~healthMode /\ servers = <<>> /\ lastOp \in {"get", "peek"}) =>
        ret = NoTarget

C22_CursorGuarded ==
    /\ [](C22_CursorValid /\ C22_EmptyListNone)
    /\ [][C22_SetIndexStep]_vars

\* The parts of C22 that hold: everything but the acceptance of an index on
\* an empty list.
C22_SetIndexStepNonEmpty ==
    \A i \in -1..MaxServers :
        (SetIndex(i) /\ (healthMode \/ servers # <<>>)) =>
            IF healthMode
            THEN ret' = "RuntimeError" /\ index' = index
            ELSE IF 0 <= i /\ i < Len(servers)
            THEN ret' \notin SetIndexErrors /\ index' = i
            ELSE ret' \in SetIndexErrors /\ index' = index

C22_CursorGuardedNonEmpty ==
    /\ [](C22_CursorValid /\ C22_EmptyListNone)
    /\ [][C22_SetIndexStepNonEmpty]_vars

\* ----------------------------------------------------------------------
\* C23: under every interleaving of construction with autostart, start(),
\* stop() and destroy(), at most one _loop task is alive at any time, and a
\* start() on a monitor that has a task creates none.
LiveTasks == {t \in TaskIds : taskState[t] \in {"check", "sleep", "cancelling"}}

C23_StartStep ==
    (lastOp' = "start" /\ task # 0) => UNCHANGED <<taskVars, hcVars, lifeVars>>

C23_OneLoopTask ==
    /\ [](Cardinality(LiveTasks) <= 1)
    /\ [][C23_StartStep]_vars

\* The part of C23 that holds: start() on a monitor whose _task is set
\* changes nothing.
C23_StartNoOp == [][C23_StartStep]_vars

\* ----------------------------------------------------------------------
\* C24: while the monitor runs, the first cycle is under way as soon as the
\* monitor has started; an origin whose probe has stored down is, as long
\* as a further cycle is followed, probed again in the next cycle; every
\* probe under way ends; and a probe that ends with a status below 400
\* stores its latency, so that the origin is reported healthy.
HealthHosts == {HealthTargets[i] : i \in 1..Len(HealthTargets)}

\* A further cycle begins within the cycles followed.
CycleLeft ==
    IF taskState[task] = "sleep" THEN last_update < MaxCycles
    ELSE last_update + 1 < MaxCycles

MarkedDown(h) ==
    /\ status[h] = Down
    /\ h \notin pending[task]
    /\ CycleLeft

C24_ProbeStep ==
    \A t \in TaskIds, h \in HealthHosts, o \in ProbeOutcomes :
        (ProbeResolve(t, h, Resolved(o)) /\ o[1] = "status<400") =>
            /\ status'[h] = o[2]
            /\ h \in {HealthyTargets[i] : i \in 1..Len(HealthyTargets)}'

C24_RetriedNextCycle ==
    /\ taskState[task] = "check" /\ pending[task] = Hosts
    /\ \A h \in HealthHosts : MarkedDown(h) ~> (h \in pending[task])
    /\ \A h \in HealthHosts : (h \in pending[task]) ~> (h \notin pending[task])
    /\ [][C24_ProbeStep]_vars

\* An origin found down in a completed cycle is probed again in the next.
C24_Witness ==
    /\ last_update >= 1
    /\ status["A"] = Down
    /\ "A" \in pending[task]
    /\ taskState[task] = "check"

\* ----------------------------------------------------------------------
\* C25: an HTTP relay closes a client only if it created it as the
\* fallback: when the relay has terminated, on whatever path, a fallback
\* client it created has been closed exactly once; the shared client of the
\* application is never closed by the relay.
C25_SharedNeverClosed ==
    /\ sharedCloses = 0
    /\ fallback = "none" => fallbackCloses = 0
    /\ fallbackCloses <= 1

C25_ClientOwnership ==
    /\ C25_SharedNeverClosed
    /\ (hpc \in {"done", "raised"} /\ fallback # "none") =>
          /\ fallbackCloses = 1
          /\ fallback = "closed"

\* The part of C25 that holds: apart from a stream that is aborted after
\* the response was returned, a fallback client is closed exactly once.
C25_ClosedUnlessAborted ==
    /\ C25_SharedNeverClosed
    /\ (hpc \in {"done", "raised"} /\ fallback # "none"
        /\ ~(hpc = "raised" /\ resp = "open")) =>
          /\ fallbackCloses = 1
          /\ fallback = "closed"

\* ----------------------------------------------------------------------
\* C26: in health mode, with quotas that no setter changes, the request
\* counter of every origin that has a quota is at most that quota in every
\* reachable state, through every sequence of get(), peek() and completed
\* probe cycles.
C26_CounterWithinQuota ==
    healthMode =>
        \A h \in Hosts :
            Limit(h) # NoLimit =>
                (request_counts[h] >= 0 /\ request_counts[h] <= Limit(h))

\* An origin has been picked as often as its quota allows, and a get()
\* after that has gone to the other origin.
C26_Witness ==
    /\ healthMode
    /\ Limit("A") = 2
    /\ request_counts["A"] = 2
    /\ lastOp = "get"
    /\ ret = "B"
    /\ ~didReset

\* ----------------------------------------------------------------------
\* C27: in both modes a get() that directly follows a peek(), with no step
\* of the monitor and no setter between the two, returns the origin (or
\* None) that the peek() returned.
C27_GetReturnsPeeked ==
    (lastOp \in {"get", "proxy_pass"} /\ peekedBefore # "-") =>
        ret = peekedBefore

C27_GetAfterPeekStep ==
    (lastOp = "peek" /\ lastOp' = "get") => (ret' = ret /\ peekedBefore' = ret)

C27_PickIsPeeked == []C27_GetReturnsPeeked /\ [][C27_GetAfterPeekStep]_vars

\* In health mode A has used up its quota; peek() returned B and the get()
\* after it returned B.
C27_Witness ==
    /\ healthMode
    /\ lastOp = "get"
    /\ peekedBefore = "B"
    /\ ret = "B"
    /\ status["A"] # Down
    /\ status["A"] < status["B"]
    /\ Limit("A") # NoLimit

\* In static mode peek() and the get() after it returned the second entry.
C27_WitnessStatic ==
    /\ ~healthMode
    /\ lastOp = "get"
    /\ Len(servers) >= 2
    /\ peekedBefore = servers[2]
    /\ ret = servers[2]
    /\ index = 2 % Len(servers)

\* ----------------------------------------------------------------------
\* C28: from construction until its first probe has resolved, an origin has
\* status 0 and is reported healthy: is_healthy() is true, and it is in
\* get_healthy_targets() and in get_response_times() with latency 0; a
\* get() in health mode while no origin has been probed returns the first
\* origin that its quota allows.
Unprobed(h) ==
    /\ last_update = InitialStamp
    /\ task # 0
    /\ taskState[task] = "check"
    /\ h \in pending[task]

AllowedUnprobed(h) ==
    Limit(h) = NoLimit \/ request_counts[h] - (IF h = ret THEN 1 ELSE 0) < Limit(h)

C28_UnprobedIsHealthy ==
    healthMode =>
        /\ \A h \in Hosts :
              Unprobed(h) =>
                  /\ status[h] = 0
                  /\ IsHealthy(h)
                  /\ h \in HealthySet
                  /\ h \in UpHosts
        /\ (lastOp = "get" /\ \A h \in Hosts : Unprobed(h)) =>
              /\ ret # NoTarget => AllowedUnprobed(ret)
              /\ \A h \in Hosts :
                    AllowedUnprobed(h) => (ret # NoTarget /\ Pos(ret) <= Pos(h))

\* get() has returned A before any probe of the first cycle has resolved.
C28_Witness ==
    /\ healthMode
    /\ lastOp = "get"
    /\ ret = "A"
    /\ \A h \in Hosts : Unprobed(h)
    /\ status["A"] = 0

\* ----------------------------------------------------------------------
\* C29: the monitor calls aclose() only on a client it created, and at most
\* once: a client passed to the constructor is never closed and stays
\* open; a client the monitor created has been closed exactly once when a
\* destroy() has completed.
C29_SuppliedNeverClosed ==
    ~owns_client => (closes = 0 /\ client = "open")

C29_OwnedClosedOnce ==
    owns_client =>
        /\ closes <= 1
        /\ destroyed => closes = 1

C29_OwnedClosedStep ==
    closes' # closes =>
        /\ closes' = closes + 1
        /\ owns_client
        /\ client = "open"
        /\ \E c \in Callers : callerPc'[c] = "destroy_close"

C29_OwnedClosed ==
    /\ [](C29_SuppliedNeverClosed
           /\ ((owns_client /\ destroyed) => (closes >= 1 /\ client = "None")))
    /\ [][C29_OwnedClosedStep]_vars

\* two destroy() calls are suspended in aclose() at once
C29_Witness ==
    /\ owns_client
    /\ closes = 2
    /\ \A c \in Callers : callerPc[c] = "destroy_close"

C29_WitnessSupplied ==
    /\ ~owns_client
    /\ destroyed
    /\ closes = 0
    /\ client = "open"
    /\ \E t \in TaskIds : taskState[t] = "done"

====
